---- MODULE Spec2Model ----
(***************************************************************************)
(* Flip 7 simulation (src/flip7_simulation.py): cards, deck, players, the  *)
(* bot strategies, the turn / round / match state machine of Flip7Game,    *)
(* and the series of matches of run_simulation and                         *)
(* run_comprehensive_experiment.                                           *)
(*                                                                         *)
(* Python lists are sequences in the same order (list[k] is seq[k+1]);     *)
(* list.pop() removes the LAST element.  Card objects live in `heap`; the  *)
(* deck, the discard pile and the hands hold references (heap indices), so *)
(* that object identity is distinct from the card's `id` string.           *)
(* Indices such as current_player_idx are 0-based as in the source.        *)
(*                                                                         *)
(* The `random` module is the Mersenne Twister state `rng` (the 624 words  *)
(* and the index of the next one); every call of random.shuffle,           *)
(* random.randint and random.sample consumes it as CPython does.  A match  *)
(* of the model with seed s is the match the code plays after              *)
(* random.seed(s).  The generator and the list of strategies are the       *)
(* inputs of a match.                                                      *)
(***************************************************************************)
EXTENDS Integers, Sequences, FiniteSets, TLC

\* ------------------------------------------------------------------ bounds
\* number of seeds of the random generator explored per strategy list
NumSeeds == 10
\* longest run of consecutive Number values in the hand of a position
MaxRun == 6
\* most modifier cards in the hand of a position
MaxModifiers == 2

\* ----------------------------------------------------------------- helpers
Max(a, b) == IF a >= b THEN a ELSE b
Min(a, b) == IF a <= b THEN a ELSE b

Repeat(x, n) == [i \in 1..n |-> x]

RECURSIVE SumSeq(_)
SumSeq(s) == IF s = <<>> THEN 0 ELSE Head(s) + SumSeq(Tail(s))

RECURSIVE SumSet(_)
SumSet(S) == IF S = {} THEN 0
             ELSE LET x == CHOOSE y \in S : TRUE IN x + SumSet(S \ {x})

Range(s) == {s[i] : i \in DOMAIN s}

\* ------------------------------------------------------------------ random
\* Python's random module: the Mersenne Twister MT19937 as CPython runs it.
\* The generator is [mt |-> the 624 words, idx |-> the next word to give out].

\* bitwise operations on bytes, by table
Xor8 ==
    LET BitXor(a, b, w) == (a \div w + b \div w) % 2
    IN [a \in 0..255 |-> [b \in 0..255 |->
           BitXor(a, b, 1) + 2 * BitXor(a, b, 2) + 4 * BitXor(a, b, 4)
           + 8 * BitXor(a, b, 8) + 16 * BitXor(a, b, 16) + 32 * BitXor(a, b, 32)
           + 64 * BitXor(a, b, 64) + 128 * BitXor(a, b, 128)]]
And8 ==
    LET BitAnd(a, b, w) == ((a \div w) % 2) * ((b \div w) % 2)
    IN [a \in 0..255 |-> [b \in 0..255 |->
           BitAnd(a, b, 1) + 2 * BitAnd(a, b, 2) + 4 * BitAnd(a, b, 4)
           + 8 * BitAnd(a, b, 8) + 16 * BitAnd(a, b, 16) + 32 * BitAnd(a, b, 32)
           + 64 * BitAnd(a, b, 64) + 128 * BitAnd(a, b, 128)]]
Xor16(a, b) == Xor8[a % 256][b % 256] + 256 * Xor8[a \div 256][b \div 256]
And16(a, b) == And8[a % 256][b % 256] + 256 * And8[a \div 256][b \div 256]

\* a 32-bit word is <<high half, low half>>
WXor(x, y) == <<Xor16(x[1], y[1]), Xor16(x[2], y[2])>>
WAnd(x, y) == <<And16(x[1], y[1]), And16(x[2], y[2])>>
\* (a * b) % 2^16 for a, b < 2^16
Mul16(a, b) == ((a % 256) * b + 256 * (((a \div 256) * b) % 256)) % 65536
\* (x * c) % 2^32
WMul(x, c) ==
    LET p0 == (x[2] % 256) * c[2]
        p1 == (x[2] \div 256) * c[2]
        t == p0 + 256 * (p1 % 256)
        carry == t \div 65536 + p1 \div 256
    IN <<(carry + Mul16(x[1], c[2]) + Mul16(x[2], c[1])) % 65536, t % 65536>>
\* (x + n) % 2^32 for a small integer n >= 0
WAddInt(x, n) ==
    LET l == x[2] + n IN <<(x[1] + l \div 65536) % 65536, l % 65536>>
\* (x - n) % 2^32 for 0 <= n < 2^16
WSubInt(x, n) ==
    IF x[2] >= n THEN <<x[1], x[2] - n>>
    ELSE <<(x[1] + 65535) % 65536, x[2] + 65536 - n>>
\* x ^ (x >> 30)
XorShift30(x) == <<x[1], Xor16(x[2], x[1] \div 16384)>>

N == 624
\* init_genrand(19650218): mt[0] = s; mt[i] = 1812433253 * (mt[i-1] ^ (mt[i-1] >> 30)) + i
RECURSIVE InitGenrand(_, _, _)
InitGenrand(mt, lo, hi) ==
    IF lo > hi THEN mt
    ELSE IF lo = hi
       THEN Append(mt, WAddInt(WMul(XorShift30(mt[lo]), <<27655, 35173>>), lo))
    ELSE LET mid == (lo + hi) \div 2
             left == InitGenrand(mt, lo, mid)
         IN IF Len(left) > 0 THEN InitGenrand(left, mid + 1, hi) ELSE left
\* 19650218 = 299 * 65536 + 54954; mt is 1-based here: mt[i + 1] is mt[i] of the C code
Genrand19650218 == InitGenrand(<< <<299, 54954>> >>, 1, N - 1)

\* init_by_array, first loop, for the key [seed]: i runs 1, 2, ..., 623, then
\* mt[0] = mt[623] and i = 1 once more (k = 624 steps), j is always 0
Key1(mt, i, seed) ==
    [mt EXCEPT ![i + 1] =
        WAddInt(WXor(mt[i + 1], WMul(XorShift30(mt[i]), <<25, 26125>>)), seed)]
RECURSIVE KeyLoop1(_, _, _, _)
KeyLoop1(mt, lo, hi, seed) ==
    IF lo > hi THEN mt
    ELSE IF lo = hi THEN Key1(mt, lo, seed)
    ELSE LET mid == (lo + hi) \div 2
             left == KeyLoop1(mt, lo, mid, seed)
         IN IF Len(left) > 0 THEN KeyLoop1(left, mid + 1, hi, seed) ELSE left
\* second loop: mt[i] = (mt[i] ^ ((mt[i-1] ^ (mt[i-1] >> 30)) * 1566083941)) - i
Key2(mt, i) ==
    [mt EXCEPT ![i + 1] =
        WSubInt(WXor(mt[i + 1], WMul(XorShift30(mt[i]), <<23896, 35685>>)), i)]
RECURSIVE KeyLoop2(_, _, _)
KeyLoop2(mt, lo, hi) ==
    IF lo > hi THEN mt
    ELSE IF lo = hi THEN Key2(mt, lo)
    ELSE LET mid == (lo + hi) \div 2
             left == KeyLoop2(mt, lo, mid)
         IN IF Len(left) > 0 THEN KeyLoop2(left, mid + 1, hi) ELSE left

\* random.seed(seed) for 0 <= seed < 2^16
Seeded(seed) ==
    LET a == KeyLoop1(Genrand19650218, 1, N - 1, seed)
        b == Key1([a EXCEPT ![1] = a[N]], 1, seed)
        c == KeyLoop2(b, 2, N - 1)
        d == Key2([c EXCEPT ![1] = c[N]], 1)
    IN [mt |-> [d EXCEPT ![1] = <<32768, 0>>], idx |-> N]

\* one word of the next block
Twisted(x, y, z) ==
    LET yh == (x[1] \div 32768) * 32768 + (y[1] % 32768)
        sh == <<yh \div 2, (yh % 2) * 32768 + y[2] \div 2>>
        mag == IF y[2] % 2 = 1 THEN <<39176, 45279>> ELSE <<0, 0>>
    IN WXor(WXor(z, sh), mag)
Twist(mt) ==
    LET a == SubSeq([i \in 1..227 |-> Twisted(mt[i], mt[i + 1], mt[i + 397])], 1, 227)
        b == SubSeq([k \in 1..227 |->
                        Twisted(mt[227 + k], mt[228 + k], a[k])], 1, 227)
        c == SubSeq([k \in 1..169 |->
                        Twisted(mt[454 + k], mt[455 + k], b[k])], 1, 169)
    IN a \o b \o c \o <<Twisted(mt[624], a[1], b[170])>>
Temper(y) ==
    LET y1 == WXor(y, <<y[1] \div 2048, (y[1] % 2048) * 32 + y[2] \div 2048>>)
        y2 == WXor(y1, WAnd(<<(y1[1] % 512) * 128 + y1[2] \div 512, (y1[2] % 512) * 128>>,
                            <<40236, 22144>>))
        y3 == WXor(y2, WAnd(<<(y2[1] % 2) * 32768 + y2[2] \div 2, (y2[2] % 2) * 32768>>,
                            <<61382, 0>>))
    IN WXor(y3, <<0, y3[1] \div 4>>)
\* genrand_uint32: the word and the generator afterwards
NextWord(mt, i) == [word |-> Temper(mt[i + 1]), rng |-> [mt |-> mt, idx |-> i + 1]]
Genrand(g) ==
    NextWord(IF g.idx >= N THEN Twist(g.mt) ELSE g.mt, IF g.idx >= N THEN 0 ELSE g.idx)
RECURSIVE BitLength(_)
BitLength(n) == IF n = 0 THEN 0 ELSE 1 + BitLength(n \div 2)
Pow2(k) == [i \in 0..31 |-> 2^i][k]
\* getrandbits(k) for 1 <= k <= 31
\* the k highest bits of the word w.word: w.word >> (32 - k)
TopBits(k, w) ==
    [value |-> IF k <= 16 THEN w.word[1] \div Pow2(16 - k)
               ELSE w.word[1] * Pow2(k - 16) + w.word[2] \div Pow2(32 - k),
     rng |-> w.rng]
GetRandBits(k, g) == TopBits(k, Genrand(g))
\* _randbelow_with_getrandbits: r = getrandbits(k); while r >= n: r = getrandbits(k)
RECURSIVE RandBelowBits(_, _, _)
RandBelowLoop(n, k, r) == IF r.value < n THEN r ELSE RandBelowBits(n, k, r.rng)
RandBelowBits(n, k, g) == RandBelowLoop(n, k, GetRandBits(k, g))
RandBelow(n, g) == RandBelowBits(n, BitLength(n), g)
\* randint(a, b) = a + _randbelow(b - a + 1)
Offset(lo, r) == [value |-> lo + r.value, rng |-> r.rng]
RandInt(lo, hi, g) == Offset(lo, RandBelow(hi - lo + 1, g))
\* random.shuffle: for i in reversed(range(1, len(x))): j = randbelow(i + 1); swap
Swap(x, i, r) ==
    [list |-> [x EXCEPT ![i + 1] = x[r.value + 1], ![r.value + 1] = x[i + 1]],
     rng |-> r.rng]
ShuffleStep(s, i) == Swap(s.list, i, RandBelow(i + 1, s.rng))
\* the steps i = hi, hi - 1, ..., lo
RECURSIVE ShuffleSteps(_, _, _)
ShuffleSteps(s, hi, lo) ==
    IF hi < lo THEN s
    ELSE IF hi = lo THEN ShuffleStep(s, hi)
    ELSE LET mid == (lo + hi) \div 2
             first == ShuffleSteps(s, hi, mid + 1)
         IN IF Len(first.list) > 0 THEN ShuffleSteps(first, mid, lo) ELSE first
Shuffle(L, g) == ShuffleSteps([list |-> SubSeq(L, 1, Len(L)), rng |-> g], Len(L) - 1, 1)

\* ------------------------------------------------------------------- cards
\* Card dataclass; unset Optional fields are -1 (ints) or "none" (enums)
NumberCard(v) ==
    [id |-> <<"card", 0>>, card_type |-> "number", value |-> v,
     action_type |-> "none", modifier_type |-> "none", modifier_value |-> -1]

ModifierCard(mt, mv) ==
    [id |-> <<"card", 0>>, card_type |-> "modifier", value |-> -1,
     action_type |-> "none", modifier_type |-> mt, modifier_value |-> mv]

ActionCard(at) ==
    [id |-> <<"card", 0>>, card_type |-> "action", value |-> -1,
     action_type |-> at, modifier_type |-> "none", modifier_value |-> -1]

\* ActionType, in enum order
ActionTypes == <<"freeze", "flipThree", "secondChance">>

\* ------------------------------------------------------------ Player (hand)
get_number_cards(cards) == SelectSeq(cards, LAMBDA c : c.card_type = "number")

get_modifier_cards(cards) == SelectSeq(cards, LAMBDA c : c.card_type = "modifier")

get_number_values(cards) ==
    LET nc == get_number_cards(cards) IN [i \in 1..Len(nc) |-> nc[i].value]

\* first loop of calculate_score: total *= modifier_value for each multiply
RECURSIVE ApplyMultiply(_, _)
ApplyMultiply(total, mods) ==
    IF mods = <<>> THEN total
    ELSE ApplyMultiply(IF Head(mods).modifier_type = "multiply"
                          THEN total * Head(mods).modifier_value ELSE total,
                       Tail(mods))

\* second loop of calculate_score: total += modifier_value for each add
RECURSIVE ApplyAdd(_, _)
ApplyAdd(total, mods) ==
    IF mods = <<>> THEN total
    ELSE ApplyAdd(IF Head(mods).modifier_type = "add"
                     THEN total + Head(mods).modifier_value ELSE total,
                  Tail(mods))

CalculateScoreAddFirst(cards, is_flip7) ==
    LET total1 == SumSeq(get_number_values(cards))
        total2 == ApplyAdd(total1, get_modifier_cards(cards))
        total3 == ApplyMultiply(total2, get_modifier_cards(cards))
    IN IF is_flip7 THEN total3 + 15 ELSE total3

calculate_score(cards, is_flip7) ==
    LET total1 == SumSeq(get_number_values(cards))
        total2 == ApplyMultiply(total1, get_modifier_cards(cards))
        total3 == ApplyAdd(total2, get_modifier_cards(cards))
    IN IF is_flip7 THEN total3 + 15 ELSE total3

HasFlip7CountsCards(cards) == Len(get_number_cards(cards)) = 7

has_flip7(cards) == Cardinality(Range(get_number_values(cards))) = 7

\* a duplicate check that never finds one
WouldBustNever(cards, new_card) == FALSE

WouldBustAnyCard(cards, new_card) ==
    new_card.value \in {cards[i].value : i \in DOMAIN cards}

would_bust(cards, new_card) ==
    IF new_card.card_type # "number" THEN FALSE
    ELSE new_card.value \in Range(get_number_values(cards))

\* ------------------------------------------------------------- create_deck
RECURSIVE NumberCardsFrom(_)
NumberCardsFrom(value) ==
    IF value > 12 THEN <<>>
    ELSE Repeat(NumberCard(value), IF value > 0 THEN value ELSE 1)
           \o NumberCardsFrom(value + 1)

AddValues == <<2, 4, 6, 8, 10>>

RECURSIVE AddCardsFrom(_)
AddCardsFrom(k) ==
    IF k > Len(AddValues) THEN <<>>
    ELSE Repeat(ModifierCard("add", AddValues[k]), 3) \o AddCardsFrom(k + 1)

RECURSIVE ActionCardsFrom(_)
ActionCardsFrom(k) ==
    IF k > Len(ActionTypes) THEN <<>>
    ELSE Repeat(ActionCard(ActionTypes[k]), 3) \o ActionCardsFrom(k + 1)

\* the cards appended by one iteration of the num_decks loop
BaseDeck ==
    NumberCardsFrom(0) \o AddCardsFrom(1)
       \o <<ModifierCard("multiply", 2)>> \o ActionCardsFrom(1)

NumDecksAlwaysTwo(num_players) == 2

NumDecks(num_players) == Max(2, (num_players + 2) \div 3)

RECURSIVE DeckCopies(_)
DeckCopies(n) == IF n = 0 THEN <<>> ELSE BaseDeck \o DeckCopies(n - 1)

\* the deck list of create_deck before random.shuffle: ids card_0, card_1, ...
CreateDeckOrdered(num_players) ==
    LET d == DeckCopies(NumDecks(num_players))
    IN [i \in 1..Len(d) |-> [d[i] EXCEPT !.id = <<"card", i - 1>>]]

\* ------------------------------------------------------------- strategies
BustProbabilityStrategy(pct, sc) ==
    [kind |-> "BustProbability", max_bust_pct |-> pct, second_chance_aware |-> sc,
     target_count |-> 0, target_points |-> 0, min_cards |-> 0]

CardCountStrategy(target, sc) ==
    [kind |-> "CardCount", max_bust_pct |-> 0, second_chance_aware |-> sc,
     target_count |-> target, target_points |-> 0, min_cards |-> 0]

PointThresholdStrategy(target) ==
    [kind |-> "PointThreshold", max_bust_pct |-> 0, second_chance_aware |-> FALSE,
     target_count |-> 0, target_points |-> target, min_cards |-> 0]

HybridStrategy(minc, target, pct, sc) ==
    [kind |-> "Hybrid", max_bust_pct |-> pct, second_chance_aware |-> sc,
     target_count |-> 0, target_points |-> target, min_cards |-> minc]

UltimateAdaptiveStrategy ==
    [kind |-> "UltimateAdaptive", max_bust_pct |-> 0, second_chance_aware |-> TRUE,
     target_count |-> 0, target_points |-> 0, min_cards |-> 3]

\* sum(range(13)): the number cards "per deck" of the bust estimate
TotalNumberCards == SumSet(0..12)

\* bust_cards = sum(set(player.get_number_values()))
BustCards(cards) == SumSet(Range(get_number_values(cards)))

\* bust_prob <= t where the threshold t is pm / 1000
\* (bust_prob = bust_cards / total_number_cards)
BustProbAtMost(cards, pm) == BustCards(cards) * 1000 <= pm * TotalNumberCards

\* effective threshold (per mille) of the probability strategies:
\* max_bust_prob, or min(1.0, 2 * max_bust_prob) when aware and protected
EffectiveThreshold(s, has_sc) ==
    IF s.second_chance_aware /\ has_sc
       THEN Min(1000, s.max_bust_pct * 10 * 2)
       ELSE s.max_bust_pct * 10

BustProbabilityIgnoresEmptyDeck(s, cards, has_sc, deck_len, discard_len) ==
    BustProbAtMost(cards, EffectiveThreshold(s, has_sc))

BustProbabilityShouldHit(s, cards, has_sc, deck_len, discard_len) ==
    IF deck_len + discard_len = 0 THEN FALSE
    ELSE BustProbAtMost(cards, EffectiveThreshold(s, has_sc))

CardCountHitsAtTarget(s, cards, has_sc) ==
    LET num_cards == Len(get_number_cards(cards))
        effective_target == IF s.second_chance_aware /\ has_sc
                               THEN s.target_count + 1 ELSE s.target_count
    IN num_cards <= effective_target

CardCountShouldHit(s, cards, has_sc) ==
    LET num_cards == Len(get_number_cards(cards))
        effective_target == IF s.second_chance_aware /\ has_sc
                               THEN s.target_count + 1 ELSE s.target_count
    IN num_cards < effective_target

PointThresholdShouldHit(s, cards) ==
    calculate_score(cards, FALSE) < s.target_points

HybridAnyProtected(s, cards, has_sc) ==
    LET num_cards == Len(get_number_cards(cards))
        current_score == calculate_score(cards, FALSE)
    IN IF num_cards < s.min_cards THEN TRUE
       ELSE IF current_score >= s.target_points
               /\ ~(has_sc /\ current_score < s.target_points + 10)
            THEN FALSE
       ELSE BustProbAtMost(cards, EffectiveThreshold(s, has_sc))

HybridShouldHit(s, cards, has_sc) ==
    LET num_cards == Len(get_number_cards(cards))
        current_score == calculate_score(cards, FALSE)
    IN IF num_cards < s.min_cards THEN TRUE
       ELSE IF current_score >= s.target_points
               /\ ~(s.second_chance_aware /\ has_sc
                     /\ current_score < s.target_points + 10)
            THEN FALSE
       ELSE BustProbAtMost(cards, EffectiveThreshold(s, has_sc))

UltimateAdaptiveNoFlip7Push(cards, has_sc, num_players, active_players) ==
    LET num_cards == Len(get_number_cards(cards))
        current_score == calculate_score(cards, FALSE)
        base0 == 200 + (num_players - 2) * 20
        base_bust_tolerance == IF has_sc THEN Min(1000, base0 * 2) ELSE base0
        point_target == (40 + num_players * 2) + (IF has_sc THEN 10 ELSE 0)
    IN IF num_cards < 3 THEN TRUE
       ELSE IF current_score >= point_target
            THEN IF has_sc /\ current_score < point_target + 15
                    THEN BustProbAtMost(cards, base_bust_tolerance)
                    ELSE FALSE
       ELSE IF 2 * active_players <= num_players
            THEN BustProbAtMost(cards, (base_bust_tolerance * 8) \div 10)
       ELSE BustProbAtMost(cards, base_bust_tolerance)

UltimateAdaptiveShouldHit(cards, has_sc, num_players, active_players) ==
    LET num_cards == Len(get_number_cards(cards))
        current_score == calculate_score(cards, FALSE)
        \* 0.20 + (num_players - 2) * 0.02, per mille
        base0 == 200 + (num_players - 2) * 20
        base_bust_tolerance == IF has_sc THEN Min(1000, base0 * 2) ELSE base0
        point_target == (40 + num_players * 2) + (IF has_sc THEN 10 ELSE 0)
    IN IF num_cards < 3 THEN TRUE
       ELSE IF num_cards = 6 /\ has_sc THEN TRUE
       ELSE IF current_score >= point_target
            THEN IF has_sc /\ current_score < point_target + 15
                    THEN BustProbAtMost(cards, base_bust_tolerance)
                    ELSE FALSE
       ELSE IF 2 * active_players <= num_players
            THEN BustProbAtMost(cards, (base_bust_tolerance * 8) \div 10)
       ELSE BustProbAtMost(cards, base_bust_tolerance)

\* strategy.should_hit(player, game_state)
should_hit(s, cards, has_sc, deck_len, discard_len, num_players, active_players) ==
    CASE s.kind = "BustProbability" ->
            BustProbabilityShouldHit(s, cards, has_sc, deck_len, discard_len)
      [] s.kind = "CardCount" -> CardCountShouldHit(s, cards, has_sc)
      [] s.kind = "PointThreshold" -> PointThresholdShouldHit(s, cards)
      [] s.kind = "Hybrid" -> HybridShouldHit(s, cards, has_sc)
      [] OTHER -> UltimateAdaptiveShouldHit(cards, has_sc, num_players, active_players)

\* ------------------------------------------------------- emergency deck
RECURSIVE EmergencyCardsFrom(_)
EmergencyCardsFrom(value) ==
    IF value > 12 THEN <<>>
    ELSE Repeat(NumberCard(value), Max(1, value \div 2))
           \o EmergencyCardsFrom(value + 1)

\* mini_deck of draw_card before its shuffle: ids em_<card_id>, ...
MiniDeck(card_id) ==
    LET d == EmergencyCardsFrom(0)
    IN [i \in 1..Len(d) |-> [d[i] EXCEPT !.id = <<"em", card_id + i - 1>>]]

\* ------------------------------------------------------------------- state
VARIABLES
    strategies,          \* Flip7Game.strategies
    rng,                 \* state of the random generator
    heap,                \* the Card objects created so far
    deck,                \* GameState.deck (references)
    discard_pile,        \* GameState.discard_pile (references)
    players,             \* GameState.players
    current_player_idx,  \* GameState.current_player_idx
    dealer_idx,          \* GameState.dealer_idx
    round_number,        \* GameState.round_number
    game_over,           \* GameState.game_over
    winner,              \* GameState.winner: index of the player, -1 is None
    pc,                  \* position in play_game / play_round / play_turn
    turn_count,          \* play_round: turn_count
    deal_idx,            \* deal_initial_cards: index of the next player
    num_cards,           \* play_turn: num_cards of the current hit
    draw_i,              \* play_turn: i of the draw loop
    results,             \* run_simulation: results;
                         \* run_comprehensive_experiment: its local variables
    game_num             \* number of matches played (of the current strategy)

vars == <<strategies, rng, heap, deck, discard_pile, players, current_player_idx,
          dealer_idx, round_number, game_over, winner, pc, turn_count,
          deal_idx, num_cards, draw_i, results, game_num>>

\* collections.Counter: a function on the keys assigned so far
EmptyCounter == [k \in {} |-> 0]

\* play_game called on its own: no simulation is running, results is unused
NoResults ==
    [wins |-> EmptyCounter, total_scores |-> EmptyCounter, games_played |-> 0,
     bust_counts |-> EmptyCounter, flip7_counts |-> EmptyCounter,
     avg_rounds_per_game |-> EmptyCounter]

NumPlayers == Len(players)

\* the Card objects a list of references denotes
Cards(refs, hp) == [i \in 1..Len(refs) |-> hp[refs[i]]]

\* the hand of the player with 0-based index idx
Hand(idx) == Cards(players[idx + 1].cards, heap)

\* GameState.get_active_players
get_active_players(plrs) == SelectSeq(plrs, LAMBDA p : p.is_active)

NextPlayerNoSkip(idx, start_idx, plrs) == (idx + 1) % Len(plrs)

\* GameState.next_player: the loop from index idx, started at start_idx
RECURSIVE NextPlayerFrom(_, _, _)
NextPlayerFrom(idx, start_idx, plrs) ==
    LET nxt == (idx + 1) % Len(plrs) IN
    IF plrs[nxt + 1].is_active THEN nxt
    ELSE IF nxt = start_idx THEN nxt
    ELSE NextPlayerFrom(nxt, start_idx, plrs)

next_player(idx, plrs) == NextPlayerFrom(idx, idx, plrs)

\* self.deck.pop(): the deck without its last card
PopDeckKeepsCard(dk) == dk

PopDeck(dk) == SubSeq(dk, 1, Len(dk) - 1)

\* "return self.deck.pop()" of draw_card: the card returned and the state left
\* behind.  `error` is the IndexError of list.pop() on an empty deck.
PopCard(dk, dp, hp, r) ==
    [error |-> dk = <<>>,
     card |-> IF dk = <<>> THEN 0 ELSE dk[Len(dk)],
     deck |-> IF dk = <<>> THEN <<>> ELSE PopDeck(dk),
     discard_pile |-> dp,
     heap |-> hp,
     rng |-> r]

\* "self.deck = mini_deck" with the shuffled mini deck sh, then the pop
DeckOfMini(dp, hp, mini, sh) == PopCard(sh.list, dp, hp \o mini, sh.rng)

\* "random.shuffle(mini_deck)": the new cards are the references after hp
ShuffledMini(dp, hp, mini, r) ==
    DeckOfMini(dp, hp, mini, Shuffle([i \in 1..Len(mini) |-> Len(hp) + i], r))

\* the "Emergency" branch of draw_card once card_id has been drawn
EmergencyDeck(dp, hp, card_id) ==
    ShuffledMini(dp, hp, MiniDeck(card_id.value), card_id.rng)

\* draw_card from its second "if not self.deck" on
DrawAfterRefill(dk, dp, hp, r) ==
    IF dk = <<>>
       THEN EmergencyDeck(dp, hp, RandInt(10000, 99999, r))
       ELSE PopCard(dk, dp, hp, r)

\* the deck is the shuffled copy sh of the discard pile, which is cleared
Refilled(sh, hp) == DrawAfterRefill(sh.list, <<>>, hp, sh.rng)

\* draw_card without its "Reshuffle discard pile" branch
DrawCardSkipsReshuffle(dk, dp, hp, r) == DrawAfterRefill(dk, dp, hp, r)

\* GameState.draw_card on deck dk, discard pile dp, heap hp, generator r:
\* the card returned and the state left behind
draw_card(dk, dp, hp, r) ==
    IF dk = <<>> /\ dp # <<>>
       THEN Refilled(Shuffle(dp, r), hp)
       ELSE DrawAfterRefill(dk, dp, hp, r)

\* the flags an appended card sets (deal_initial_cards and play_turn)
WithCard(p, ref, card) ==
    [p EXCEPT !.cards = Append(@, ref),
              !.has_second_chance =
                  IF card.card_type = "action" /\ card.action_type = "secondChance"
                     THEN TRUE ELSE @,
              !.has_flip_three_active =
                  IF card.card_type = "action" /\ card.action_type # "secondChance"
                     /\ card.action_type = "flipThree"
                     THEN TRUE ELSE @]

\* ------------------------------------------------------------------ inputs
StrategyLists ==
    << <<CardCountStrategy(5, FALSE), PointThresholdStrategy(45)>>,
       <<BustProbabilityStrategy(25, TRUE), HybridStrategy(3, 50, 20, TRUE)>>,
       <<UltimateAdaptiveStrategy, CardCountStrategy(7, TRUE),
         PointThresholdStrategy(1000)>>,
       <<PointThresholdStrategy(1000)>>,
       <<CardCountStrategy(7, TRUE), CardCountStrategy(7, TRUE)>>,
       <<CardCountStrategy(8, TRUE), CardCountStrategy(8, FALSE),
         CardCountStrategy(6, TRUE)>>,
       <<BustProbabilityStrategy(15, FALSE), BustProbabilityStrategy(25, FALSE),
         CardCountStrategy(5, FALSE), PointThresholdStrategy(45),
         HybridStrategy(3, 50, 20, FALSE)>> >>

Seeds == 22..(21 + NumSeeds)

\* the generator after random.seed(seed), for the seeds of the matches
SeededGen == [seed \in Seeds |-> Seeded(seed)]

\* create_deck's random.shuffle(deck) of a deck of len cards, by reference,
\* in the generator random.seed(seed) leaves
ShuffledDeck(len, seed) ==
    Shuffle([i \in 1..len |-> i],
            IF seed \in Seeds THEN SeededGen[seed] ELSE Seeded(seed))

\* the shuffled decks of the matches of StrategyLists
InitialShuffle ==
    [len \in {Len(CreateDeckOrdered(Len(StrategyLists[k]))) :
                 k \in 1..Len(StrategyLists)} |->
        [seed \in Seeds |-> ShuffledDeck(len, seed)]]

\* GameState.__post_init__: self.deck = create_deck(num_players), shuffled
CreateDeckShuffled(len, seed) ==
    IF len \in DOMAIN InitialShuffle /\ seed \in Seeds
       THEN InitialShuffle[len][seed]
       ELSE ShuffledDeck(len, seed)

\* Player(id=f"player_{i}", cards=[], score=0)
NewPlayer(i) ==
    [id |-> <<"player", i>>, cards |-> <<>>, score |-> 0, round_score |-> 0,
     is_active |-> TRUE, has_busted |-> FALSE, has_second_chance |-> FALSE,
     has_flip_three_active |-> FALSE, frozen_by |-> "none"]

\* --------------------------------------------------------- initialize_game
Init ==
    \E k \in 1..Len(StrategyLists), seed \in Seeds :
        LET n == Len(StrategyLists[k])
            d == CreateDeckOrdered(n)
            sh == CreateDeckShuffled(Len(d), seed)
        IN /\ strategies = StrategyLists[k]
           /\ heap = d
           /\ deck = sh.list
           /\ rng = sh.rng
           /\ discard_pile = <<>>
           /\ players = [i \in 1..n |-> NewPlayer(i - 1)]
           /\ current_player_idx = 1 % n
           /\ dealer_idx = 0
           /\ round_number = 1
           /\ game_over = FALSE
           /\ winner = -1
           /\ pc = "play_round"
           /\ turn_count = 0
           /\ deal_idx = 0
           /\ num_cards = 0
           /\ draw_i = 0
           /\ results = NoResults
           /\ game_num = 0

\* ---------------------------------------------------------------- play_round
\* a reset that leaves the Second Chance of the round before in place
ResetRoundKeepsSecondChance ==
    /\ pc = "play_round"
    /\ ~game_over
    /\ players' = [i \in 1..NumPlayers |->
                     [players[i] EXCEPT !.cards = <<>>, !.is_active = TRUE,
                                        !.has_busted = FALSE,
                                        !.has_flip_three_active = FALSE,
                                        !.round_score = 0]]
    /\ deal_idx' = 0
    /\ pc' = "deal"
    /\ UNCHANGED <<strategies, results, game_num, rng, heap, deck, discard_pile, current_player_idx,
                   dealer_idx, round_number, game_over, winner, turn_count,
                   num_cards, draw_i>>

\* a reset that puts the first player's hand of the finished round on the
\* discard pile
ResetRoundDiscardsHands ==
    /\ pc = "play_round"
    /\ ~game_over
    /\ players' = [i \in 1..NumPlayers |->
                     [players[i] EXCEPT !.cards = <<>>, !.is_active = TRUE,
                                        !.has_busted = FALSE,
                                        !.has_second_chance = FALSE,
                                        !.has_flip_three_active = FALSE,
                                        !.round_score = 0]]
    /\ discard_pile' = discard_pile \o players[1].cards
    /\ deal_idx' = 0
    /\ pc' = "deal"
    /\ UNCHANGED <<strategies, results, game_num, rng, heap, deck, current_player_idx,
                   dealer_idx, round_number, game_over, winner, turn_count,
                   num_cards, draw_i>>

\* a reset that also clears the total score
ResetRoundClearsTotal ==
    /\ pc = "play_round"
    /\ ~game_over
    /\ players' = [i \in 1..NumPlayers |->
                     [players[i] EXCEPT !.cards = <<>>, !.is_active = TRUE,
                                        !.has_busted = FALSE,
                                        !.has_second_chance = FALSE,
                                        !.has_flip_three_active = FALSE,
                                        !.round_score = 0, !.score = 0]]
    /\ deal_idx' = 0
    /\ pc' = "deal"
    /\ UNCHANGED <<strategies, results, game_num, rng, heap, deck, discard_pile, current_player_idx,
                   dealer_idx, round_number, game_over, winner, turn_count,
                   num_cards, draw_i>>

\* play_round, "Reset players for new round"
ResetRound ==
    /\ pc = "play_round"
    /\ ~game_over
    /\ players' = [i \in 1..NumPlayers |->
                     [players[i] EXCEPT !.cards = <<>>, !.is_active = TRUE,
                                        !.has_busted = FALSE,
                                        !.has_second_chance = FALSE,
                                        !.has_flip_three_active = FALSE,
                                        !.round_score = 0]]
    /\ deal_idx' = 0
    /\ pc' = "deal"
    /\ UNCHANGED <<strategies, results, game_num, rng, heap, deck, discard_pile, current_player_idx,
                   dealer_idx, round_number, game_over, winner, turn_count,
                   num_cards, draw_i>>

\* deal_initial_cards: one iteration of the loop over the players; the last
\* one is followed by turn_count = 0 of play_round
DealInitialCard ==
    /\ pc = "deal"
    /\ \E d \in {draw_card(deck, discard_pile, heap, rng)} :
       LET last == deal_idx + 1 = NumPlayers
       IN /\ deck' = d.deck
          /\ discard_pile' = d.discard_pile
          /\ heap' = d.heap
          /\ rng' = d.rng
          /\ IF d.error
                THEN /\ pc' = "IndexError"
                     /\ UNCHANGED <<players, deal_idx, turn_count>>
                ELSE /\ players' = [players EXCEPT ![deal_idx + 1] =
                                       WithCard(@, d.card, d.heap[d.card])]
                     /\ deal_idx' = deal_idx + 1
                     /\ pc' = IF last THEN "turn_loop" ELSE "deal"
                     /\ turn_count' = IF last THEN 0 ELSE turn_count
    /\ UNCHANGED <<strategies, results, game_num, current_player_idx, dealer_idx, round_number,
                   game_over, winner, num_cards, draw_i>>

\* a turn loop without its safety limit
LoopCondNoLimit == get_active_players(players) # <<>>

\* the condition of the while loop of play_round (max_turns = 100)
LoopCond == get_active_players(players) # <<>> /\ turn_count < 100

\* play_turn returned True: next_player() and turn_count += 1, back to the loop
ContinueRound(plrs) ==
    /\ current_player_idx' = next_player(current_player_idx, plrs)
    /\ turn_count' = turn_count + 1
    /\ pc' = "turn_loop"

BreakRoundContinues ==
    /\ current_player_idx' = next_player(current_player_idx, players')
    /\ turn_count' = turn_count + 1
    /\ pc' = "turn_loop"

\* play_turn returned False: break
BreakRound ==
    /\ pc' = "scoring"
    /\ UNCHANGED <<current_player_idx, turn_count>>

\* a player banks calculate_score(is_flip7) and is deactivated
Bank(p, hand, is_flip7) ==
    [p EXCEPT !.round_score = calculate_score(hand, is_flip7), !.is_active = FALSE]

UseSecondChanceKeepsIt(p) == p

\* play_turn, "Use second chance": the flag is consumed
\* a Second Chance that stacks: the protection lasts while the hand holds
\* more than one Second Chance card
UseSecondChanceStacked(p) ==
    [p EXCEPT !.has_second_chance =
        Cardinality({k \in 1..Len(p.cards) :
                        heap[p.cards[k]].action_type = "secondChance"}) >= 2]

UseSecondChance(p) == [p EXCEPT !.has_second_chance = FALSE]

BustStaysActive(p) == [p EXCEPT !.has_busted = TRUE, !.round_score = 0]

\* play_turn, "Bust!"
Bust(p) == [p EXCEPT !.has_busted = TRUE, !.is_active = FALSE, !.round_score = 0]

\* play_turn without the forced stay at 10 Number cards
PlayTurnNoSafetyValve ==
    /\ pc = "turn_loop"
    /\ LoopCond
    /\ LET idx == current_player_idx
           player == players[idx + 1]
           hand == Hand(idx)
           hit == should_hit(strategies[idx + 1], hand, player.has_second_chance,
                             Len(deck), Len(discard_pile), NumPlayers,
                             Len(get_active_players(players)))
       IN IF ~player.is_active
             THEN /\ ContinueRound(players)
                  /\ UNCHANGED <<players, num_cards, draw_i>>
          ELSE IF has_flip7(hand)
             THEN /\ players' = [players EXCEPT ![idx + 1] = Bank(@, hand, TRUE)]
                  /\ BreakRound
                  /\ UNCHANGED <<num_cards, draw_i>>
          ELSE IF ~hit
             THEN /\ players' = [players EXCEPT ![idx + 1] = Bank(@, hand, FALSE)]
                  /\ ContinueRound(players')
                  /\ UNCHANGED <<num_cards, draw_i>>
          ELSE /\ num_cards' = IF player.has_flip_three_active THEN 3 ELSE 1
               /\ draw_i' = 0
               /\ pc' = "draw"
               /\ UNCHANGED <<players, current_player_idx, turn_count>>
    /\ UNCHANGED <<strategies, results, game_num, rng, heap, deck, discard_pile, dealer_idx,
                   round_number, game_over, winner, deal_idx>>

\* play_turn that hits without asking the strategy
PlayTurnAlwaysHits ==
    /\ pc = "turn_loop"
    /\ LoopCond
    /\ LET idx == current_player_idx
           player == players[idx + 1]
           hand == Hand(idx)
       IN IF ~player.is_active
             THEN /\ ContinueRound(players)
                  /\ UNCHANGED <<players, num_cards, draw_i>>
          ELSE IF has_flip7(hand)
             THEN /\ players' = [players EXCEPT ![idx + 1] = Bank(@, hand, TRUE)]
                  /\ BreakRound
                  /\ UNCHANGED <<num_cards, draw_i>>
          ELSE IF Len(get_number_cards(hand)) >= 10
             THEN /\ players' = [players EXCEPT ![idx + 1] = Bank(@, hand, FALSE)]
                  /\ ContinueRound(players')
                  /\ UNCHANGED <<num_cards, draw_i>>
          ELSE /\ num_cards' = IF player.has_flip_three_active THEN 3 ELSE 1
               /\ draw_i' = 0
               /\ pc' = "draw"
               /\ UNCHANGED <<players, current_player_idx, turn_count>>
    /\ UNCHANGED <<strategies, results, game_num, rng, heap, deck, discard_pile, dealer_idx,
                   round_number, game_over, winner, deal_idx>>

\* play_turn without its "if not player.is_active: return True"
PlayTurnOfInactive ==
    /\ pc = "turn_loop"
    /\ LoopCond
    /\ LET idx == current_player_idx
           player == players[idx + 1]
           hand == Hand(idx)
           hit == should_hit(strategies[idx + 1], hand, player.has_second_chance,
                             Len(deck), Len(discard_pile), NumPlayers,
                             Len(get_active_players(players)))
       IN IF has_flip7(hand)
             THEN /\ players' = [players EXCEPT ![idx + 1] = Bank(@, hand, TRUE)]
                  /\ BreakRound
                  /\ UNCHANGED <<num_cards, draw_i>>
          ELSE IF Len(get_number_cards(hand)) >= 10 \/ ~hit
             THEN /\ players' = [players EXCEPT ![idx + 1] = Bank(@, hand, FALSE)]
                  /\ ContinueRound(players')
                  /\ UNCHANGED <<num_cards, draw_i>>
          ELSE /\ num_cards' = IF player.has_flip_three_active THEN 3 ELSE 1
               /\ draw_i' = 0
               /\ pc' = "draw"
               /\ UNCHANGED <<players, current_player_idx, turn_count>>
    /\ UNCHANGED <<strategies, results, game_num, rng, heap, deck, discard_pile, dealer_idx,
                   round_number, game_over, winner, deal_idx>>

\* play_turn up to the decision: inactive player, Flip 7 before the turn,
\* forced stay, the strategy's stay, or the start of a hit
PlayTurn ==
    /\ pc = "turn_loop"
    /\ LoopCond
    /\ LET idx == current_player_idx
           player == players[idx + 1]
           hand == Hand(idx)
           hit == should_hit(strategies[idx + 1], hand, player.has_second_chance,
                             Len(deck), Len(discard_pile), NumPlayers,
                             Len(get_active_players(players)))
       IN IF ~player.is_active
             THEN /\ ContinueRound(players)
                  /\ UNCHANGED <<players, num_cards, draw_i>>
          ELSE IF has_flip7(hand)
             THEN /\ players' = [players EXCEPT ![idx + 1] = Bank(@, hand, TRUE)]
                  /\ BreakRound
                  /\ UNCHANGED <<num_cards, draw_i>>
          ELSE IF Len(get_number_cards(hand)) >= 10 \/ ~hit
             THEN /\ players' = [players EXCEPT ![idx + 1] = Bank(@, hand, FALSE)]
                  /\ ContinueRound(players')
                  /\ UNCHANGED <<num_cards, draw_i>>
          ELSE /\ num_cards' = IF player.has_flip_three_active THEN 3 ELSE 1
               /\ draw_i' = 0
               /\ pc' = "draw"
               /\ UNCHANGED <<players, current_player_idx, turn_count>>
    /\ UNCHANGED <<strategies, results, game_num, rng, heap, deck, discard_pile, dealer_idx,
                   round_number, game_over, winner, deal_idx>>

\* play_turn: one iteration of "for i in range(num_cards)"
DrawStep ==
    /\ pc = "draw"
    /\ \E d \in {draw_card(deck, discard_pile, heap, rng)} :
       LET idx == current_player_idx
           player == players[idx + 1]
           card == d.heap[d.card]
           hand == Cards(player.cards, d.heap)
           more == draw_i + 1 < num_cards
       IN /\ deck' = d.deck
          /\ heap' = d.heap
          /\ rng' = d.rng
          /\ IF d.error
                THEN /\ pc' = "IndexError"
                     /\ discard_pile' = d.discard_pile
                     /\ UNCHANGED <<players, current_player_idx, turn_count, draw_i>>
             ELSE IF would_bust(hand, card) /\ player.has_second_chance
                THEN /\ players' = [players EXCEPT ![idx + 1] = UseSecondChance(@)]
                     /\ discard_pile' = Append(d.discard_pile, d.card)
                     /\ draw_i' = draw_i + 1
                     /\ pc' = IF more THEN "draw" ELSE "after_draw"
                     /\ UNCHANGED <<current_player_idx, turn_count>>
             ELSE IF would_bust(hand, card)
                THEN /\ players' = [players EXCEPT ![idx + 1] = Bust(@)]
                     /\ discard_pile' = d.discard_pile
                     /\ ContinueRound(players')
                     /\ UNCHANGED draw_i
             ELSE /\ players' = [players EXCEPT ![idx + 1] =
                                    WithCard(@, d.card, card)]
                  /\ discard_pile' = d.discard_pile
                  /\ draw_i' = draw_i + 1
                  /\ pc' = IF more THEN "draw" ELSE "after_draw"
                  /\ UNCHANGED <<current_player_idx, turn_count>>
    /\ UNCHANGED <<strategies, results, game_num, dealer_idx, round_number, game_over, winner,
                   deal_idx, num_cards>>

\* the end of a hit without the check for Flip 7
FinishHitWithoutFlip7 ==
    /\ pc = "after_draw"
    /\ players' = [players EXCEPT ![current_player_idx + 1].has_flip_three_active =
                      IF num_cards = 3 THEN FALSE ELSE @]
    /\ ContinueRound(players')
    /\ UNCHANGED <<strategies, results, game_num, rng, heap, deck, discard_pile, dealer_idx,
                   round_number, game_over, winner, deal_idx, num_cards, draw_i>>

\* the end of a hit that leaves the Flip Three flag as it is
FinishHitKeepsFlipThree ==
    /\ pc = "after_draw"
    /\ LET idx == current_player_idx
           hand == Hand(idx)
       IN IF has_flip7(hand)
             THEN /\ players' = [players EXCEPT ![idx + 1] = Bank(@, hand, TRUE)]
                  /\ BreakRound
             ELSE /\ players' = players
                  /\ ContinueRound(players')
    /\ UNCHANGED <<strategies, results, game_num, rng, heap, deck, discard_pile, dealer_idx,
                   round_number, game_over, winner, deal_idx, num_cards, draw_i>>

\* play_turn after the draw loop: "Check for Flip 7 after drawing" and
\* "Reset flip three after use"
FinishHit ==
    /\ pc = "after_draw"
    /\ LET idx == current_player_idx
           hand == Hand(idx)
       IN IF has_flip7(hand)
             THEN /\ players' = [players EXCEPT ![idx + 1] = Bank(@, hand, TRUE)]
                  /\ BreakRound
             ELSE /\ players' = [players EXCEPT ![idx + 1].has_flip_three_active =
                                    IF num_cards = 3 THEN FALSE ELSE @]
                  /\ ContinueRound(players')
    /\ UNCHANGED <<strategies, results, game_num, rng, heap, deck, discard_pile, dealer_idx,
                   round_number, game_over, winner, deal_idx, num_cards, draw_i>>

\* a scoring that also banks the cards of the players still active
ScoreRoundBanksActive ==
    /\ \/ pc = "scoring"
       \/ pc = "turn_loop" /\ ~LoopCond
    /\ players' = [i \in 1..NumPlayers |->
                     [players[i] EXCEPT !.score = @ + IF players[i].is_active
                          THEN calculate_score(Cards(players[i].cards, heap), FALSE)
                          ELSE players[i].round_score]]
    /\ pc' = "check_winner"
    /\ UNCHANGED <<strategies, results, game_num, rng, heap, deck, discard_pile, current_player_idx,
                   dealer_idx, round_number, game_over, winner, turn_count,
                   deal_idx, num_cards, draw_i>>

\* play_round: "Add round scores to total scores", after the loop ended
ScoreRound ==
    /\ \/ pc = "scoring"
       \/ pc = "turn_loop" /\ ~LoopCond
    /\ players' = [i \in 1..NumPlayers |->
                     [players[i] EXCEPT !.score = @ + players[i].round_score]]
    /\ pc' = "check_winner"
    /\ UNCHANGED <<strategies, results, game_num, rng, heap, deck, discard_pile, current_player_idx,
                   dealer_idx, round_number, game_over, winner, turn_count,
                   deal_idx, num_cards, draw_i>>

\* ----------------------------------------------------------------- play_game
RECURSIVE FindWinnerLast(_, _)
FindWinnerLast(idx, plrs) ==
    IF idx >= Len(plrs) THEN -1
    ELSE LET later == FindWinnerLast(idx + 1, plrs)
         IN IF later # -1 THEN later
            ELSE IF plrs[idx + 1].score >= 200 THEN idx ELSE -1

NextDealerStays(d, n) == d

\* "Next round": dealer_idx = (dealer_idx + 1) % len(players)
NextDealer(d, n) == (d + 1) % n

\* "Check for winner": the first player of the loop with score >= 200
FindWinner(idx, plrs) ==
    LET reached == {j \in idx..(Len(plrs) - 1) : plrs[j + 1].score >= 200}
    IN IF reached = {} THEN -1
       ELSE CHOOSE j \in reached : \A k \in reached : j <= k

\* play_game after play_round: winner check, else "Next round"
CheckWinner ==
    /\ pc = "check_winner"
    /\ LET w == FindWinner(0, players)
       IN IF w # -1
             THEN /\ game_over' = TRUE
                  /\ winner' = w
                  /\ pc' = "done"
                  /\ UNCHANGED <<round_number, dealer_idx, current_player_idx>>
             ELSE /\ round_number' = round_number + 1
                  /\ dealer_idx' = NextDealer(dealer_idx, NumPlayers)
                  /\ current_player_idx' = (dealer_idx' + 1) % NumPlayers
                  /\ pc' = "play_round"
                  /\ UNCHANGED <<game_over, winner>>
    /\ UNCHANGED <<strategies, results, game_num, rng, heap, deck, discard_pile, players, turn_count,
                   deal_idx, num_cards, draw_i>>

Next ==
    \/ ResetRound
    \/ DealInitialCard
    \/ PlayTurn
    \/ DrawStep
    \/ FinishHit
    \/ ScoreRound
    \/ CheckWinner

Spec == Init /\ [][Next]_vars

\* ------------------------------------------------------ play_turn positions
\* A position is a state of the turn loop in which play_turn is about to be
\* called for a player (the subject) holding a given hand: the inputs of
\* has_flip7, calculate_score, would_bust and of the strategies.

\* the references of the cards of heap hp that equal card c up to their id
RefsLike(hp, c) ==
    SelectSeq([i \in 1..Len(hp) |-> i], LAMBDA i : [hp[i] EXCEPT !.id = c.id] = c)

SeqsUpTo(S, m) == UNION {[1..k -> S] : k \in 0..m}

\* the modifier cards of a hand, in the order drawn
ModifierInputs ==
    SeqsUpTo({ModifierCard("multiply", 2), ModifierCard("add", 4)}, MaxModifiers)

\* a hand: the Second Chance card if protected, a run of distinct Number
\* values, the modifier cards
HandInput(lo, len, mods, sc) ==
    (IF sc THEN <<ActionCard("secondChance")>> ELSE <<>>)
       \o [i \in 1..len |-> NumberCard(lo + i - 1)] \o mods

\* the strategies of a position; the subject is the player at index 1 % n
PositionLists ==
    << <<BustProbabilityStrategy(25, TRUE)>>,
       <<BustProbabilityStrategy(15, FALSE)>>,
       <<PointThresholdStrategy(1000), HybridStrategy(3, 50, 20, TRUE)>>,
       <<PointThresholdStrategy(1000), HybridStrategy(3, 50, 20, FALSE)>>,
       <<PointThresholdStrategy(1000), UltimateAdaptiveStrategy>>,
       <<PointThresholdStrategy(1000), UltimateAdaptiveStrategy,
         PointThresholdStrategy(1000)>>,
       <<PointThresholdStrategy(1000), UltimateAdaptiveStrategy>>
          \o Repeat(PointThresholdStrategy(1000), 6) >>

\* create_deck(n) before the shuffle, for the player counts of the positions
PositionDecks ==
    [n \in {Len(PositionLists[k]) : k \in 1..Len(PositionLists)} |->
        CreateDeckOrdered(n)]

\* the kinds of card the hands of the positions hold
PositionCards ==
    {NumberCard(v) : v \in 0..12}
       \cup {ModifierCard("multiply", 2), ModifierCard("add", 4),
             ActionCard("secondChance")}

PositionRefs ==
    [n \in DOMAIN PositionDecks |->
        [c \in PositionCards |-> RefsLike(PositionDecks[n], c)]]

\* references of distinct card objects of create_deck(n) for a sequence of
\* cards: an equal card is taken from the k-th copy onwards
TemplateRefs(n, tpl, k) ==
    [i \in 1..Len(tpl) |->
        PositionRefs[n][tpl[i]][k + Cardinality({j \in 1..(i - 1) : tpl[j] = tpl[i]})]]

\* create_deck(n) holds as many cards of each kind as the sequence needs
Enough(n, tpl) ==
    \A i \in 1..Len(tpl) :
       Cardinality({j \in 1..Len(tpl) : tpl[j] = tpl[i]}) <= Len(PositionRefs[n][tpl[i]])

\* the seed of the deck order of a position: the first of Seeds
PositionSeed == CHOOSE s \in Seeds : \A t \in Seeds : s <= t

\* the shuffled deck of initialize_game, for the player counts of the positions
PositionOrder ==
    [n \in DOMAIN PositionDecks |->
        CreateDeckShuffled(Len(PositionDecks[n]), PositionSeed)]

Without(seq, S) == SelectSeq(seq, LAMBDA r : r \notin S)

\* another player after one turn: busted on a second [12], or still active
\* holding [12] and [11]
OtherPlayer(i, n, busted) ==
    [NewPlayer(i) EXCEPT
        !.cards = TemplateRefs(n, IF busted THEN <<NumberCard(12)>>
                                   ELSE <<NumberCard(12), NumberCard(11)>>, i + 2),
        !.is_active = ~busted,
        !.has_busted = busted]

\* the subject in its turn, every other player having had one turn; the deck
\* is the shuffled deck without the cards held, or (for a hand without
\* modifier cards) deck and discard pile are both used up
PositionInit ==
    \E k \in 1..Len(PositionLists), lo \in 0..12, len \in 0..MaxRun,
       mods \in ModifierInputs, sc \in BOOLEAN, busted \in BOOLEAN,
       used_up \in BOOLEAN :
        LET n == Len(PositionLists[k])
            d == PositionDecks[n]
            subject == 1 % n
            tpl == HandInput(lo, len, mods, sc)
            hand == TemplateRefs(n, tpl, 1)
            plrs == [i \in 1..n |->
                       IF i - 1 = subject
                          THEN [NewPlayer(i - 1) EXCEPT !.cards = hand,
                                                        !.has_second_chance = sc]
                          ELSE OtherPlayer(i - 1, n, busted)]
            held == UNION {Range(plrs[i].cards) : i \in 1..n}
            rest == Without(PositionOrder[n].list, held)
        IN /\ lo + len <= 13
           /\ used_up => mods = <<>>
           /\ Enough(n, tpl)
           /\ strategies = PositionLists[k]
           /\ heap = d
           /\ deck = IF used_up THEN <<>> ELSE rest
           /\ rng = PositionOrder[n].rng
           /\ discard_pile = <<>>
           /\ players = plrs
           /\ current_player_idx = subject
           /\ dealer_idx = 0
           /\ round_number = 1
           /\ game_over = FALSE
           /\ winner = -1
           /\ pc = "turn_loop"
           /\ turn_count = n
           /\ deal_idx = n
           /\ num_cards = 0
           /\ draw_i = 0
           /\ results = NoResults
           /\ game_num = 0

\* the call of play_turn in the position
PlayTurnOfSubject == turn_count = NumPlayers /\ PlayTurn

PositionNext ==
    \/ PlayTurnOfSubject
    \/ DrawStep
    \/ FinishHit

PositionSpec == PositionInit /\ [][PositionNext]_vars

\* ------------------------------------------------------- arranged decks
\* random.shuffle leaves the deck in the order its generator dictates.  An
\* arrangement is a list of strategies and the cards the deck yields first, in
\* the order drawn (the initial deal to players 0, 1, ... and then the draws of
\* the turns); the match starts from a generator that deals this deck.

\* the first draws are: Flip Three to player 0, and a second Flip Three as the
\* last card of the triple batch the first one causes
FlipThreeInBatch ==
    [strategies |-> <<PointThresholdStrategy(1000), PointThresholdStrategy(1000)>>,
     draws |-> <<ActionCard("flipThree"), NumberCard(5),
                 NumberCard(6),
                 NumberCard(1), NumberCard(2), ActionCard("flipThree"),
                 NumberCard(7),
                 NumberCard(3),
                 NumberCard(8)>>]

\* player 0 draws [0]..[5], Flip Three, the batch [6] [7] [8] and then [9],
\* while player 1 draws Add cards and then [10]
TenNumberCards ==
    [strategies |-> <<PointThresholdStrategy(1000), PointThresholdStrategy(1000)>>,
     draws |-> <<NumberCard(0), ModifierCard("add", 2),
                 ModifierCard("add", 2), NumberCard(1),
                 ModifierCard("add", 2), NumberCard(2),
                 ModifierCard("add", 4), NumberCard(3),
                 ModifierCard("add", 4), NumberCard(4),
                 ModifierCard("add", 4), NumberCard(5),
                 ModifierCard("add", 6), ActionCard("flipThree"),
                 ModifierCard("add", 6),
                 NumberCard(6), NumberCard(7), NumberCard(8),
                 ModifierCard("add", 6), NumberCard(9),
                 ModifierCard("add", 8),
                 NumberCard(10)>>]

\* the Add, x2, Freeze and Second Chance cards of create_deck(7)
UnnumberedCards ==
    LET d == CreateDeckOrdered(7)
        picked == SelectSeq(d, LAMBDA c :
                     c.card_type # "number" /\ c.action_type # "flipThree")
    IN [i \in 1..Len(picked) |-> [picked[i] EXCEPT !.id = <<"card", 0>>]]

\* seven players who always hit are dealt [12], draw every card that is no
\* Number and no Flip Three card, then [11], [10], [9], [8] and [7]: no bust,
\* no Flip 7, a card for every turn
HundredTurns ==
    [strategies |-> Repeat(PointThresholdStrategy(1000), 7),
     draws |-> Repeat(NumberCard(12), 7) \o UnnumberedCards
                  \o Repeat(NumberCard(11), 7) \o Repeat(NumberCard(10), 7)
                  \o Repeat(NumberCard(9), 7) \o Repeat(NumberCard(8), 7)
                  \o Repeat(NumberCard(7), 7)]

\* player 0 is dealt [5], draws Second Chance and then Flip Three, and the
\* triple batch is a second Second Chance card, [5] and [5]
SecondChanceTwice ==
    [strategies |-> <<PointThresholdStrategy(1000), PointThresholdStrategy(1000)>>,
     draws |-> <<NumberCard(5), NumberCard(6),
                 NumberCard(7), ActionCard("secondChance"),
                 NumberCard(8), ActionCard("flipThree"),
                 NumberCard(9),
                 ActionCard("secondChance"), NumberCard(5), NumberCard(5)>>]

Arrangements == <<FlipThreeInBatch, TenNumberCards, HundredTurns, SecondChanceTwice>>

\* references of distinct card objects of hp for a sequence of cards
RefsOf(hp, tpl) ==
    [i \in 1..Len(tpl) |->
        RefsLike(hp, tpl[i])[1 + Cardinality({j \in 1..(i - 1) : tpl[j] = tpl[i]})]]

\* the deck of initialize_game for each arrangement: the cards drawn first are
\* the last of the list (draw_card pops), the other cards lie below them
ArrangedDecks ==
    [a \in 1..Len(Arrangements) |->
        LET d == CreateDeckOrdered(Len(Arrangements[a].strategies))
            top == RefsOf(d, Arrangements[a].draws)
        IN Without([i \in 1..Len(d) |-> i], Range(top))
              \o [i \in 1..Len(top) |-> top[Len(top) + 1 - i]]]

\* the word that genrand_uint32 tempers to z: Temper(Untemper(z)) = z
Untemper(z) ==
    LET Step7(y, x) ==
            WXor(y, WAnd(<<(x[1] % 512) * 128 + x[2] \div 512, (x[2] % 512) * 128>>,
                         <<40236, 22144>>))
        Step11(y, x) == WXor(y, <<x[1] \div 2048, (x[1] % 2048) * 32 + x[2] \div 2048>>)
        y3 == <<z[1], Xor16(z[2], z[1] \div 4)>>
        y2 == <<Xor16(y3[1], And16((y3[1] % 2) * 32768 + y3[2] \div 2, 61382)), y3[2]>>
        y1 == Step7(y2, Step7(y2, Step7(y2, Step7(y2, y2))))
    IN Step11(y1, Step11(y1, y1))

\* the values j of random.shuffle's steps i = len - 1, ..., 1 that leave the
\* list 1..len in the order target: step i swaps target[i] into place i
ShuffleChoices(target) ==
    LET Place(s, i, j) ==
            [list |-> [s.list EXCEPT ![i + 1] = s.list[j + 1], ![j + 1] = s.list[i + 1]],
             js |-> [s.js EXCEPT ![i] = j]]
        Step(s, i) ==
            Place(s, i, CHOOSE j \in 0..i : s.list[j + 1] = target[i + 1])
        RECURSIVE Steps(_, _, _)
        Steps(s, hi, lo) ==
            IF hi < lo THEN s
            ELSE IF hi = lo THEN Step(s, hi)
            ELSE LET mid == (lo + hi) \div 2
                     first == Steps(s, hi, mid + 1)
                 IN IF Len(first.list) > 0 THEN Steps(first, mid, lo) ELSE first
    IN Steps([list |-> [i \in 1..Len(target) |-> i],
              js |-> [i \in 1..(Len(target) - 1) |-> 0]], Len(target) - 1, 1).js

\* for each arrangement, a generator from which random.shuffle deals its deck:
\* the generator of random.seed(PositionSeed) after its first word, where the
\* words the shuffle reads are those whose highest bits are the values j
\* (_randbelow(i + 1) is the highest (i + 1).bit_length() bits of a word)
ArrangedGen ==
    [a \in 1..Len(Arrangements) |->
        LET len == Len(ArrangedDecks[a])
            js == ShuffleChoices(ArrangedDecks[a])
            first == Genrand(SeededGen[PositionSeed]).rng
        IN [mt |-> SubSeq([p \in 1..N |->
                      IF p \in 2..len
                         THEN Untemper(<<js[len + 1 - p]
                                           * Pow2(16 - BitLength(len + 2 - p)), 0>>)
                         ELSE first.mt[p]], 1, N),
            idx |-> first.idx]]

\* create_deck's random.shuffle(deck), by reference, in these generators
ArrangedShuffle ==
    [a \in 1..Len(Arrangements) |->
        Shuffle([i \in 1..Len(ArrangedDecks[a]) |-> i], ArrangedGen[a])]

\* initialize_game with the deck in the order of an arrangement
ArrangedInit ==
    \E a \in 1..Len(Arrangements) :
        LET n == Len(Arrangements[a].strategies)
        IN /\ strategies = Arrangements[a].strategies
           /\ heap = CreateDeckOrdered(n)
           /\ deck = ArrangedShuffle[a].list
           /\ rng = ArrangedShuffle[a].rng
           /\ discard_pile = <<>>
           /\ players = [i \in 1..n |-> NewPlayer(i - 1)]
           /\ current_player_idx = 1 % n
           /\ dealer_idx = 0
           /\ round_number = 1
           /\ game_over = FALSE
           /\ winner = -1
           /\ pc = "play_round"
           /\ turn_count = 0
           /\ deal_idx = 0
           /\ num_cards = 0
           /\ draw_i = 0
           /\ results = NoResults
           /\ game_num = 0

ArrangedSpec == ArrangedInit /\ [][Next]_vars

\* play_game has returned or raised: the states in which no step of Next is
\* enabled
Halted ==
    \/ pc \notin {"play_round", "deal", "turn_loop", "draw", "after_draw",
                  "scoring", "check_winner"}
    \/ pc = "play_round" /\ game_over

\* play_game is one sequential computation: it always takes its next step.
\* This is weak fairness of Next, WF_vars(Next), with ENABLED <<Next>>_vars
\* written out as ~Halted.
Fairness == []<>Halted \/ []<><<Next>>_vars

ArrangedFairSpec == ArrangedSpec /\ Fairness

\* the matches of Spec, each run to its end
LiveSpec == Spec /\ Fairness

\* ------------------------------------------------- constructor arguments
\* Lists of strategies as the constructors accept them: no strategy at all,
\* and strategies whose parameters are a probability above 1 or below 0, a
\* negative card count, negative points.
ConfigLists ==
    << <<>>,
       <<BustProbabilityStrategy(150, FALSE), CardCountStrategy(5, FALSE)>>,
       <<BustProbabilityStrategy(-20, TRUE), PointThresholdStrategy(45)>>,
       <<CardCountStrategy(-1, FALSE), CardCountStrategy(5, FALSE)>>,
       <<PointThresholdStrategy(-5), HybridStrategy(-1, -10, 200, FALSE)>> >>

\* Flip7Game(strategies) followed by initialize_game: create_deck runs first,
\* then "1 % len(players)" raises ZeroDivisionError for an empty list and
\* game_state is never assigned (its fields are shown with their defaults)
ConfigInit ==
    \E k \in 1..Len(ConfigLists), seed \in Seeds :
        LET n == Len(ConfigLists[k])
            d == CreateDeckOrdered(n)
            sh == CreateDeckShuffled(Len(d), seed)
        IN /\ strategies = ConfigLists[k]
           /\ heap = d
           /\ deck = sh.list
           /\ rng = sh.rng
           /\ discard_pile = <<>>
           /\ players = [i \in 1..n |-> NewPlayer(i - 1)]
           /\ current_player_idx = IF n = 0 THEN 0 ELSE 1 % n
           /\ dealer_idx = 0
           /\ round_number = IF n = 0 THEN 0 ELSE 1
           /\ game_over = FALSE
           /\ winner = -1
           /\ pc = IF n = 0 THEN "ZeroDivisionError" ELSE "play_round"
           /\ turn_count = 0
           /\ deal_idx = 0
           /\ num_cards = 0
           /\ draw_i = 0
           /\ results = NoResults
           /\ game_num = 0

ConfigSpec == ConfigInit /\ [][Next]_vars

\* ------------------------------------------------------- staying strategies
\* Strategy lists whose strategies stay when first asked: a threshold of 0
\* points or 0 cards is met by any hand.  The Second Chance aware CardCount
\* strategy of the second list is the exception: it hits when it was dealt a
\* Second Chance.  The last list has one player more than play_round has
\* turns.
StayLists ==
    << <<PointThresholdStrategy(0), CardCountStrategy(0, FALSE)>>,
       <<CardCountStrategy(0, TRUE), HybridStrategy(0, 0, 20, FALSE),
         PointThresholdStrategy(-5)>>,
       <<PointThresholdStrategy(0)>>,
       [i \in 1..101 |-> PointThresholdStrategy(0)] >>

\* every seed for a list, one seed for the long list
StayInit ==
    \E k \in 1..Len(StayLists) :
      \E seed \in IF Len(StayLists[k]) > 100 THEN {PositionSeed} ELSE Seeds :
        LET n == Len(StayLists[k])
            d == CreateDeckOrdered(n)
            sh == CreateDeckShuffled(Len(d), seed)
        IN /\ strategies = StayLists[k]
           /\ heap = d
           /\ deck = sh.list
           /\ rng = sh.rng
           /\ discard_pile = <<>>
           /\ players = [i \in 1..n |-> NewPlayer(i - 1)]
           /\ current_player_idx = 1 % n
           /\ dealer_idx = 0
           /\ round_number = 1
           /\ game_over = FALSE
           /\ winner = -1
           /\ pc = "play_round"
           /\ turn_count = 0
           /\ deal_idx = 0
           /\ num_cards = 0
           /\ draw_i = 0
           /\ results = NoResults
           /\ game_num = 0

StaySpec == StayInit /\ [][Next]_vars

\* ------------------------------------------------ play_turn after the round
\* of a player has ended.  play_round never asks such a player (next_player
\* skips it), a direct caller of play_turn can: the position is the turn loop
\* with an inactive current player, the other players being active.
TerminalLists ==
    << <<PointThresholdStrategy(1000), HybridStrategy(3, 50, 20, TRUE)>>,
       <<CardCountStrategy(5, FALSE), UltimateAdaptiveStrategy,
         PointThresholdStrategy(45)>> >>

\* the ways the round of a player ends (a forced stay leaves a stay behind)
Endings == {"stay", "bust", "flip7"}

\* the player with index i after its round ended in the way `how` with the
\* hand tpl (references refs)
EndedPlayer(i, refs, tpl, sc, how) ==
    [NewPlayer(i) EXCEPT
        !.cards = refs,
        !.has_second_chance = sc,
        !.is_active = FALSE,
        !.has_busted = (how = "bust"),
        !.round_score = IF how = "bust" THEN 0
                        ELSE calculate_score(tpl, how = "flip7")]

\* Flip 7 ends the round of a hand of seven values and of no other; a bust
\* happens without Second Chance
TerminalInit ==
    \E k \in 1..Len(TerminalLists), lo \in {0, 5}, len \in {1, 3, 7},
       sc \in BOOLEAN, how \in Endings :
        LET n == Len(TerminalLists[k])
            subject == 1 % n
            tpl == HandInput(lo, len, <<ModifierCard("add", 4)>>, sc)
            plrs == [i \in 1..n |->
                       IF i - 1 = subject
                          THEN EndedPlayer(i - 1, TemplateRefs(n, tpl, 1), tpl, sc, how)
                          ELSE OtherPlayer(i - 1, n, FALSE)]
            held == UNION {Range(plrs[i].cards) : i \in 1..n}
        IN /\ lo + len <= 13
           /\ (how = "flip7") <=> (len = 7)
           /\ (how = "bust") => ~sc
           /\ strategies = TerminalLists[k]
           /\ heap = PositionDecks[n]
           /\ deck = Without(PositionOrder[n].list, held)
           /\ rng = PositionOrder[n].rng
           /\ discard_pile = <<>>
           /\ players = plrs
           /\ current_player_idx = subject
           /\ dealer_idx = 0
           /\ round_number = 1
           /\ game_over = FALSE
           /\ winner = -1
           /\ pc = "turn_loop"
           /\ turn_count = n
           /\ deal_idx = n
           /\ num_cards = 0
           /\ draw_i = 0
           /\ results = NoResults
           /\ game_num = 0

\* the call, and the match played on from there
TerminalSpec == TerminalInit /\ [][Next]_vars

\* ================================================================== claims
\* number of cards create_deck produced for this match
InitialDeckSize == Len(CreateDeckOrdered(NumPlayers))

\* the player whose turn it is, and the distinct number values a hand holds
Current == players[current_player_idx + 1]

DistinctValues(idx) == Range(get_number_values(Hand(idx)))

OthersUnchanged(idx) ==
    \A j \in 1..NumPlayers : j # idx + 1 => players'[j] = players[j]

\* ---------------------------------------------------------------------- C1
\* C1: when a hit batch completes leaving the acting player with exactly 7
\* distinct Number values, the player's round score becomes the plain hand
\* score + 15, the player is deactivated and the round ends for everyone: the
\* turn loop is left, and until the round's scores are added no player takes a
\* turn, draws a card or has the round score changed.
C1_Flip7EndsRound ==
    [][ /\ (pc = "after_draw" /\ Cardinality(DistinctValues(current_player_idx)) = 7)
           => /\ players'[current_player_idx + 1].round_score
                    = calculate_score(Hand(current_player_idx), FALSE) + 15
              /\ ~players'[current_player_idx + 1].is_active
              /\ players'[current_player_idx + 1].cards = Current.cards
              /\ OthersUnchanged(current_player_idx)
              /\ pc' = "scoring"
              /\ deck' = deck /\ discard_pile' = discard_pile
        /\ pc = "scoring"
           => /\ pc' = "check_winner"
              /\ deck' = deck /\ discard_pile' = discard_pile
              /\ turn_count' = turn_count
              /\ \A j \in 1..NumPlayers :
                    /\ players'[j].cards = players[j].cards
                    /\ players'[j].round_score = players[j].round_score
                    /\ players'[j].is_active = players[j].is_active
      ]_vars

\* a Flip 7 after a hit ended the round while another player was still active
C1_Witness ==
    /\ pc = "scoring"
    /\ Cardinality(DistinctValues(current_player_idx)) = 7
    /\ ~Current.is_active
    /\ Current.round_score = calculate_score(Hand(current_player_idx), FALSE) + 15
    /\ \E j \in 1..NumPlayers : players[j].is_active

\* ---------------------------------------------------------------------- C2
\* C2: in every reachable state no player's hand contains more than 7 distinct
\* Number values (a hand that reaches 7 distinct values ends the round at once,
\* also in the middle of a Flip Three batch).
C2_AtMostSevenDistinct ==
    \A i \in 1..NumPlayers : Cardinality(DistinctValues(i - 1)) <= 7

\* ---------------------------------------------------------------------- C3
\* the draw the current player is about to make, while pc = "draw"
NextDraw == draw_card(deck, discard_pile, heap, rng)

NextDrawBusts ==
    would_bust(Cards(Current.cards, NextDraw.heap), NextDraw.heap[NextDraw.card])

\* C3: whenever a player holding Second Chance draws a Number card whose value
\* is already in the hand, after that draw the player is still active and not
\* busted, has_second_chance is false, the hand is unchanged, the drawn card is
\* the last card of the discard pile, and the remaining draws of the batch are
\* still performed (the draw loop goes on to its next iteration).
C3_SecondChanceConsumed ==
    [][ (pc = "draw" /\ Current.has_second_chance /\ NextDrawBusts)
        => /\ players'[current_player_idx + 1].is_active
           /\ ~players'[current_player_idx + 1].has_busted
           /\ ~players'[current_player_idx + 1].has_second_chance
           /\ players'[current_player_idx + 1].cards = Current.cards
           /\ discard_pile' = Append(NextDraw.discard_pile, NextDraw.card)
           /\ NextDraw.card \notin Range(deck')
           /\ draw_i' = draw_i + 1
           /\ current_player_idx' = current_player_idx
           /\ pc' = IF draw_i + 1 < num_cards THEN "draw" ELSE "after_draw"
      ]_vars

\* in the middle of a Flip Three batch the last discard is a duplicate of a
\* value the drawing player holds, whose Second Chance card is in the hand but
\* whose protection is gone
C3_Witness ==
    /\ pc = "draw"
    /\ num_cards = 3
    /\ draw_i >= 1
    /\ discard_pile # <<>>
    /\ heap[discard_pile[Len(discard_pile)]].card_type = "number"
    /\ heap[discard_pile[Len(discard_pile)]].value \in DistinctValues(current_player_idx)
    /\ ~Current.has_second_chance
    /\ Current.is_active
    /\ \E k \in 1..Len(Current.cards) :
          heap[Current.cards[k]].action_type = "secondChance"

\* ---------------------------------------------------------------------- C4
\* C4: whenever a player without Second Chance draws a Number card whose value
\* is already in the hand, the round score becomes 0, has_busted becomes true,
\* the player is deactivated, no further card of the batch is drawn (the turn
\* is over), the round continues for the other players (the next active player
\* is up), and the player's total score is not changed by that round.
C4_Bust ==
    [][ /\ (pc = "draw" /\ ~Current.has_second_chance /\ NextDrawBusts)
           => /\ players'[current_player_idx + 1].round_score = 0
              /\ players'[current_player_idx + 1].has_busted
              /\ ~players'[current_player_idx + 1].is_active
              /\ players'[current_player_idx + 1].cards = Current.cards
              /\ players'[current_player_idx + 1].score = Current.score
              /\ OthersUnchanged(current_player_idx)
              /\ pc' = "turn_loop"
              /\ turn_count' = turn_count + 1
              /\ (\E j \in 1..NumPlayers : players'[j].is_active)
                    => /\ players'[current_player_idx' + 1].is_active
                       /\ current_player_idx' # current_player_idx
        /\ \A j \in 1..NumPlayers :
              players[j].has_busted
                 => /\ players'[j].score = players[j].score
                    /\ players[j].round_score = 0
                    /\ ~players[j].is_active
                    /\ players'[j].cards \in {players[j].cards, <<>>}
      ]_vars

\* a player busted in the middle of a Flip Three batch and another player is
\* up next
C4_Witness ==
    /\ pc = "turn_loop"
    /\ \E j \in 1..NumPlayers :
          /\ players[j].has_busted
          /\ players[j].has_flip_three_active
          /\ j # current_player_idx + 1
    /\ Current.is_active

\* ---------------------------------------------------------------------- C5
AtTarget == {i \in 0..(NumPlayers - 1) : players[i + 1].score >= 200}

\* C5: the match ends exactly after the first round at whose end some total is
\* >= 200 (totals are < 200 whenever a round is in progress or about to start),
\* the winner is the lowest-index player whose total is >= 200 at that point,
\* and game_over is true iff a winner is set.
C5_Winner ==
    /\ game_over <=> winner # -1
    /\ game_over <=> pc = "done"
    /\ pc \notin {"check_winner", "done"} => AtTarget = {}
    /\ pc = "done" => /\ AtTarget # {}
                      /\ winner \in AtTarget
                      /\ \A i \in AtTarget : winner <= i

\* a match won by a player while a later player holds a higher total >= 200
C5_Witness ==
    /\ pc = "done"
    /\ game_over
    /\ \E j \in AtTarget : j > winner /\ players[j + 1].score > players[winner + 1].score

\* ---------------------------------------------------------------------- C6
AnyActive(plrs) == \E j \in 1..Len(plrs) : plrs[j].is_active

\* C6 as stated: in every state of a round in which at least one player is
\* still active, players[current_player_idx] is an active player.
C6_CurrentIsActive ==
    (pc \in {"deal", "turn_loop", "draw", "after_draw", "scoring"}
       /\ AnyActive(players))
       => Current.is_active

\* number of next_player steps from index a to index b (1..n, n for b = a)
CyclicDistance(a, b, n) == ((b - a + n - 1) % n) + 1

\* C6 (amended): while the turn loop of a round is running (initial deal, turns
\* and draws, up to the turn that ends the round), if any player is active then
\* players[current_player_idx] is active; and every next_player call moves
\* current_player_idx cyclically (modulo the player count) to the next active
\* player, skipping exactly the inactive ones (back to its start if none is
\* active).
C6_CurrentIsActiveInLoop ==
    /\ [](( pc \in {"deal", "turn_loop", "draw", "after_draw"}
            /\ AnyActive(players))
          => Current.is_active)
    /\ [][ turn_count' = turn_count + 1
           => LET n == NumPlayers
                  dist == CyclicDistance(current_player_idx, current_player_idx', n)
              IN /\ current_player_idx' \in 0..(n - 1)
                 /\ \A k \in 1..(dist - 1) :
                       ~players'[((current_player_idx + k) % n) + 1].is_active
                 /\ AnyActive(players') => players'[current_player_idx' + 1].is_active
                 /\ ~AnyActive(players') => current_player_idx' = current_player_idx
         ]_vars

\* a turn has just ended and next_player skipped an inactive player
C6_Witness ==
    /\ pc = "turn_loop"
    /\ turn_count > 0
    /\ NumPlayers >= 3
    /\ Current.is_active
    /\ \E j \in 1..NumPlayers : ~players[j].is_active
    /\ ~players[((current_player_idx + NumPlayers - 1) % NumPlayers) + 1].is_active
    /\ players[((current_player_idx + NumPlayers - 2) % NumPlayers) + 1].is_active

\* ---------------------------------------------------------------------- C7
\* C7: the first round has dealer index 0; after every round that produces no
\* winner dealer_idx becomes (dealer_idx + 1) mod playerCount and round_number
\* increases by exactly 1; in every round the first player to act is
\* (dealer_idx + 1) mod playerCount (player 0 in a one-player match).
C7_DealerRotation ==
    /\ [](round_number = 1 => dealer_idx = 0)
    /\ []((pc \in {"play_round", "deal"} \/ (pc = "turn_loop" /\ turn_count = 0))
          => /\ current_player_idx = (dealer_idx + 1) % NumPlayers
             /\ NumPlayers = 1 => current_player_idx = 0)
    /\ [][ /\ (pc = "check_winner" /\ \A j \in 1..NumPlayers : players[j].score < 200)
              => /\ dealer_idx' = (dealer_idx + 1) % NumPlayers
                 /\ round_number' = round_number + 1
                 /\ pc' = "play_round"
           /\ (pc # "check_winner" \/ \E j \in 1..NumPlayers : players[j].score >= 200)
              => /\ dealer_idx' = dealer_idx
                 /\ round_number' = round_number
         ]_vars

\* the dealer position has wrapped around in a match of several players, and
\* the first turn of the round is about to be taken
C7_Witness ==
    /\ NumPlayers >= 2
    /\ round_number > NumPlayers
    /\ dealer_idx = NumPlayers - 1
    /\ current_player_idx = 0
    /\ pc = "turn_loop"
    /\ turn_count = 0

\* ---------------------------------------------------------------------- C8
RECURSIVE HandRefsFrom(_)
HandRefsFrom(j) ==
    IF j > NumPlayers THEN <<>> ELSE players[j].cards \o HandRefsFrom(j + 1)

\* every card reference held by the deck, the discard pile or a hand
OwnedRefs == deck \o discard_pile \o HandRefsFrom(1)

\* the emergency path of draw_card has created cards
EmergencyTaken == Len(heap) > InitialDeckSize

\* C8: as long as the emergency-deck path of draw_card has not been taken,
\* |deck| + |discard pile| + the sum of all hand sizes equals the number of
\* cards create_deck produced at match start.
C8_CardConservation ==
    ~EmergencyTaken => Len(OwnedRefs) = InitialDeckSize

\* ---------------------------------------------------------------------- C9
\* C9: in every reachable state each card object is in at most one of the
\* deck, the discard pile or one player's hand, and appears there at most once.
C9_SingleOwnership ==
    /\ Cardinality(Range(OwnedRefs)) = Len(OwnedRefs)
    /\ Range(OwnedRefs) \subseteq 1..Len(heap)

\* the deck is what is left of the deck create_deck shuffled for some seed
InitialDecks ==
    {InitialShuffle[len][seed].list : len \in DOMAIN InitialShuffle, seed \in Seeds}

DeckIsInitialRest ==
    \E d \in InitialDecks :
       Len(d) = InitialDeckSize /\ deck = SubSeq(d, 1, Len(deck))

\* the discard pile has been reshuffled into the deck (the deck is no rest of
\* the initial deck, and no emergency deck either) and a card drawn from it is
\* in a hand
C9_Witness ==
    /\ ~EmergencyTaken
    /\ ~DeckIsInitialRest
    /\ deck # <<>>
    /\ discard_pile = <<>>
    /\ \E j \in 1..NumPlayers : players[j].cards # <<>>

\* --------------------------------------------------------------------- C10
\* C10: draw_card never fails and always returns a card: wherever a card is
\* about to be drawn, the draw returns a card object; if the deck is empty and
\* the discard pile is not, the discard pile is reshuffled into the deck (the
\* discard pile becomes empty, no card is created) and the returned card is
\* one of the former discard cards; the emergency deck is created only when
\* deck and discard pile are both empty, holds Number cards only, and is not
\* empty.
C10_DrawNeverFails ==
    /\ pc # "IndexError"
    /\ pc \in {"deal", "draw"}
       => /\ ~NextDraw.error
          /\ NextDraw.card \in 1..Len(NextDraw.heap)
          /\ NextDraw.card \notin Range(NextDraw.deck)
          /\ (deck # <<>>)
                => /\ NextDraw.card = deck[Len(deck)]
                   /\ NextDraw.discard_pile = discard_pile
                   /\ NextDraw.heap = heap
          /\ (deck = <<>> /\ discard_pile # <<>>)
                => /\ NextDraw.discard_pile = <<>>
                   /\ NextDraw.heap = heap
                   /\ NextDraw.card \in Range(discard_pile)
                   /\ Range(NextDraw.deck) \cup {NextDraw.card} = Range(discard_pile)
          /\ (Len(NextDraw.heap) > Len(heap)) <=> (deck = <<>> /\ discard_pile = <<>>)
          /\ (deck = <<>> /\ discard_pile = <<>>)
                => /\ NextDraw.card > Len(heap)
                   /\ Len(NextDraw.deck) + 1 = Len(NextDraw.heap) - Len(heap)
                   /\ \A r \in (Len(heap) + 1)..Len(NextDraw.heap) :
                         NextDraw.heap[r].card_type = "number"

\* a card is about to be drawn while the deck, refilled from the discard pile
\* before, and the discard pile are both empty, so that the emergency deck is
\* created
C10_Witness ==
    /\ pc \in {"deal", "draw"}
    /\ ~EmergencyTaken
    /\ deck = <<>>
    /\ discard_pile = <<>>
    /\ Len(NextDraw.heap) > Len(heap)
    /\ ~NextDraw.error

\* --------------------------------------------------------------------- C11
\* the cards create_deck produced (ids card_0, card_1, ...), in heap order
CreatedCards == SelectSeq(heap, LAMBDA c : c.id[1] = "card")

CeilDiv(a, b) == (a + b - 1) \div b

\* C11 as stated: for every player count n >= 1, create_deck(n) builds exactly
\* max(2, ceil((n+2)/3)) copies of the base deck (that many times the
\* base-deck card count).
C11_DeckCopiesCeil ==
    Len(CreatedCards) = Max(2, CeilDiv(NumPlayers + 2, 3)) * Len(BaseDeck)

\* C11 (amended): for every player count n >= 1, create_deck(n) builds exactly
\* max(2, floor((n+2)/3)) copies of the base deck: that many times the
\* base-deck card count, the k-th card being a copy of card k mod |base deck|
\* of the base deck with id card_k (any later card of the heap belongs to an
\* emergency deck).
C11_DeckCopiesFloor ==
    /\ Len(heap) >= Max(2, (NumPlayers + 2) \div 3) * Len(BaseDeck)
    /\ \A i \in 1..Len(heap) :
          IF i <= Max(2, (NumPlayers + 2) \div 3) * Len(BaseDeck)
             THEN /\ heap[i].id = <<"card", i - 1>>
                  /\ [heap[i] EXCEPT !.id = <<"card", 0>>]
                        = BaseDeck[((i - 1) % Len(BaseDeck)) + 1]
             ELSE heap[i].id[1] = "em"

\* a match of 8 players, whose deck holds three copies of the base deck
C11_Witness ==
    /\ NumPlayers = 8
    /\ Len(CreatedCards) = 3 * Len(BaseDeck)
    /\ Len(CreatedCards) > 2 * Len(BaseDeck)

\* --------------------------------------------------------------------- C12
RECURSIVE ProductSeq(_)
ProductSeq(s) == IF s = <<>> THEN 1 ELSE Head(s) * ProductSeq(Tail(s))

\* the values of the Number cards, the amounts of the Multiply modifiers and
\* the amounts of the Add modifiers of a hand
ValuesOfKind(cards, ct, mt) ==
    LET sel == SelectSeq(cards, LAMBDA c : c.card_type = ct /\ c.modifier_type = mt)
    IN [i \in 1..Len(sel) |-> IF ct = "number" THEN sel[i].value
                              ELSE sel[i].modifier_value]

Pipeline(cards, is_flip7) ==
    SumSeq(ValuesOfKind(cards, "number", "none"))
       * ProductSeq(ValuesOfKind(cards, "modifier", "multiply"))
    + SumSeq(ValuesOfKind(cards, "modifier", "add"))
    + (IF is_flip7 THEN 15 ELSE 0)

Reverse(s) == [i \in 1..Len(s) |-> s[Len(s) + 1 - i]]

\* C12: for every hand, calculate_score(is_flip7) equals ((sum of the Number
\* values) x (product of the amounts of all Multiply modifiers in hand))
\* + (sum of the amounts of all Add modifiers in hand) + (15 if is_flip7 else
\* 0); the order in which the cards were drawn does not matter (Multiply is
\* applied before Add); and this is the round score a player banks by staying
\* (is_flip7 false) or by a Flip 7 (is_flip7 true).
C12_ScorePipeline ==
    /\ [](\A j \in 1..NumPlayers, f \in BOOLEAN :
             /\ calculate_score(Hand(j - 1), f) = Pipeline(Hand(j - 1), f)
             /\ calculate_score(Reverse(Hand(j - 1)), f) = Pipeline(Hand(j - 1), f))
    /\ [][ \A j \in 1..NumPlayers :
              (players[j].is_active /\ ~players'[j].is_active
                 /\ ~players'[j].has_busted)
              => players'[j].round_score = Pipeline(Hand(j - 1), pc' = "scoring")
         ]_vars

\* a player has stayed on Number cards summing to 23 with a +4 drawn before a
\* x2, and banked 50
C12_Witness ==
    \E j \in 1..NumPlayers :
       /\ ~players[j].is_active
       /\ ~players[j].has_busted
       /\ SumSeq(ValuesOfKind(Hand(j - 1), "number", "none")) = 23
       /\ LET mods == get_modifier_cards(Hand(j - 1))
          IN /\ Len(mods) = 2
             /\ mods[1].modifier_type = "add" /\ mods[1].modifier_value = 4
             /\ mods[2].modifier_type = "multiply" /\ mods[2].modifier_value = 2
       /\ players[j].round_score = 50

\* --------------------------------------------------------------------- C13
\* every kind of card of the game (cards up to their id)
CardKinds == Range(BaseDeck)

\* card c is a Number card whose value is the value of a Number card of cards
DuplicatesNumber(cards, c) ==
    /\ c.card_type = "number"
    /\ \E k \in 1..Len(cards) :
          cards[k].card_type = "number" /\ cards[k].value = c.value

\* would_bust on the hand cards agrees with DuplicatesNumber for every kind of
\* card, with or without the hand's Action and Modifier cards
WouldBustAgrees(cards) ==
    \A c \in CardKinds :
       /\ would_bust(cards, c) <=> DuplicatesNumber(cards, c)
       /\ c.card_type # "number" => ~would_bust(cards, c)
       /\ would_bust(cards, c) <=> would_bust(get_number_cards(cards), c)

\* C13: would_bust(card) is true iff card is a Number card and its value equals
\* the value of some Number card already in the hand; it is false for every
\* Action and Modifier card, and the Action/Modifier cards in the hand never
\* change the result; a drawn card is kept out of the hand exactly when
\* would_bust holds for it.
C13_WouldBust ==
    /\ [](\A j \in 1..NumPlayers : WouldBustAgrees(Hand(j - 1)))
    /\ [][ pc = "draw"
           => (players'[current_player_idx + 1].cards = Current.cards
                 <=> DuplicatesNumber(Cards(Current.cards, NextDraw.heap),
                                      NextDraw.heap[NextDraw.card]))
         ]_vars

\* a player holding modifier or action cards besides its Number cards has
\* busted on a drawn card
C13_Witness ==
    \E j \in 1..NumPlayers :
       /\ players[j].has_busted
       /\ pc = "turn_loop"
       /\ turn_count = NumPlayers + 1
       /\ Len(get_modifier_cards(Hand(j - 1))) > 0
       /\ Len(get_number_cards(Hand(j - 1))) > 1

\* --------------------------------------------------------------------- C14
\* number of distinct Number values in a hand
DistinctCount(cards) ==
    Cardinality({cards[k].value :
                    k \in {i \in 1..Len(cards) : cards[i].card_type = "number"}})

\* a hand with no or one more Number card of any value, distinct or duplicate
OneMore(cards) == {cards} \cup {Append(cards, NumberCard(v)) : v \in 0..12}

\* has_flip7 on a hand of d distinct Number values and n Number cards
Flip7Agrees(h, d, n) ==
    /\ has_flip7(h) <=> d = 7
    /\ d <= 6 => ~has_flip7(h)
    /\ d >= 8 => ~has_flip7(h)
    /\ (n = 7 /\ d < 7) => ~has_flip7(h)

\* C14: has_flip7() is true iff the number of distinct Number values in the
\* hand is exactly 7: false for 6 or fewer and for 8 or more distinct values,
\* and for a hand of 7 Number cards containing a duplicate value; the Flip 7
\* checks of play_turn end the round exactly for such a hand.
C14_HasFlip7 ==
    /\ [](\A j \in 1..NumPlayers : \A h \in OneMore(Hand(j - 1)) :
             Flip7Agrees(h, DistinctCount(h), Len(get_number_cards(h))))
    /\ [][ ((pc = "after_draw" \/ (pc = "turn_loop" /\ Current.is_active))
              /\ vars' # vars)
           => (pc' = "scoring"
                 <=> DistinctCount(Hand(current_player_idx)) = 7)
         ]_vars

\* a drawn card completed 7 distinct Number values and the Flip 7 check ended
\* the round
C14_Witness ==
    /\ pc = "scoring"
    /\ DistinctCount(Hand(current_player_idx)) = 7
    /\ Len(get_number_cards(Hand(current_player_idx))) = 7
    /\ Current.round_score = Pipeline(Hand(current_player_idx), TRUE)

\* --------------------------------------------------------------------- C15
\* the answer of the current player's strategy in this state
CurrentHit ==
    should_hit(strategies[current_player_idx + 1], Hand(current_player_idx),
               Current.has_second_chance, Len(deck), Len(discard_pile),
               NumPlayers, Len(get_active_players(players)))

\* the current player can be asked: active, not busted, no Flip 7, fewer than
\* 10 Number cards
CanBeQueried ==
    /\ Current.is_active
    /\ ~Current.has_busted
    /\ DistinctCount(Hand(current_player_idx)) # 7
    /\ Len(get_number_cards(Hand(current_player_idx))) < 10

\* C15: should_hit decides a turn only for a player who is active in the
\* round, has not busted, stayed or completed Flip 7, and holds fewer than 10
\* Number cards: a hit starts only from the turn loop for such a player whose
\* strategy answers hit, and for such a player the turn is a hit iff the
\* strategy answers hit; the turn of an inactive player neither draws nor
\* banks; and a hand grows only by the initial deal or by a draw of the
\* current player inside a hit.
C15_QueriedOnlyWhenActive ==
    /\ [](pc \in {"draw", "after_draw"}
             => /\ Current.is_active
                /\ ~Current.has_busted
                /\ num_cards \in {1, 3}
                /\ draw_i <= num_cards)
    /\ [][ /\ (pc # "draw" /\ pc' = "draw")
              => /\ pc = "turn_loop"
                 /\ CanBeQueried
                 /\ CurrentHit
                 /\ current_player_idx' = current_player_idx
                 /\ players' = players
           /\ (pc = "turn_loop" /\ turn_count' = turn_count + 1 /\ CanBeQueried)
              => /\ ~CurrentHit
                 /\ ~players'[current_player_idx + 1].is_active
                 /\ players'[current_player_idx + 1].round_score
                       = Pipeline(Hand(current_player_idx), FALSE)
           /\ (pc = "turn_loop" /\ ~Current.is_active)
              => /\ pc' # "draw"
                 /\ players'[current_player_idx + 1].cards = Current.cards
                 /\ players'[current_player_idx + 1].round_score = Current.round_score
           /\ \A j \in 1..NumPlayers :
                 Len(players'[j].cards) > Len(players[j].cards)
                 => \/ pc = "deal" /\ j = deal_idx + 1
                    \/ pc = "draw" /\ j = current_player_idx + 1
         ]_vars

\* a hit of three cards has started for an active player while another player
\* of the round is no longer active
C15_Witness ==
    /\ pc = "draw"
    /\ draw_i = 0
    /\ num_cards = 3
    /\ Current.is_active
    /\ \E j \in 1..NumPlayers : ~players[j].is_active

\* --------------------------------------------------------------------- C16
\* sum of the distinct Number values of a hand
DistinctSum(cards) ==
    SumSet({v \in 0..12 : \E k \in 1..Len(cards) :
               cards[k].card_type = "number" /\ cards[k].value = v})

\* (sum of the distinct Number values held) / 78 <= pct / 100
WithinPct(cards, pct) == DistinctSum(cards) * 100 <= pct * 78

\* T of a strategy with threshold p: min(1, 2p) if scAware and the player
\* holds Second Chance, p otherwise (in percent)
ThresholdPct(s, has_sc) ==
    IF s.second_chance_aware /\ has_sc
       THEN (IF 2 * s.max_bust_pct > 100 THEN 100 ELSE 2 * s.max_bust_pct)
       ELSE s.max_bust_pct

CurrentStrategy == strategies[current_player_idx + 1]

\* a BustProbability strategy is about to be queried
BustProbabilityQueried ==
    /\ pc = "turn_loop"
    /\ CanBeQueried
    /\ CurrentStrategy.kind = "BustProbability"

\* C16 as stated: BustProbability(p, scAware).should_hit returns hit iff (sum
\* of the distinct Number values held) / 78 <= T, in every state in which the
\* strategy can be queried, whatever the size of the deck and discard pile.
C16_BustProbability ==
    BustProbabilityQueried
       => (CurrentHit <=> WithinPct(Hand(current_player_idx),
                                    ThresholdPct(CurrentStrategy, Current.has_second_chance)))

\* C16 (amended): in every state in which the strategy can be queried,
\* BustProbability(p, scAware).should_hit returns hit iff the deck and the
\* discard pile are not both empty and (sum of the distinct Number values
\* held) / 78 <= T; when deck and discard pile are both empty it returns stay.
\* The turn is a hit exactly in that case.
C16_BustProbabilityUnlessNoCards ==
    /\ [](BustProbabilityQueried
            => /\ (deck = <<>> /\ discard_pile = <<>>) => ~CurrentHit
               /\ (deck # <<>> \/ discard_pile # <<>>)
                     => (CurrentHit
                           <=> WithinPct(Hand(current_player_idx),
                                  ThresholdPct(CurrentStrategy,
                                               Current.has_second_chance))))
    /\ [][ (BustProbabilityQueried /\ vars' # vars)
           => (pc' = "draw"
                 <=> /\ Len(deck) + Len(discard_pile) > 0
                     /\ WithinPct(Hand(current_player_idx),
                           ThresholdPct(CurrentStrategy, Current.has_second_chance)))
         ]_vars

\* a BustProbability player whose bust estimate is within its threshold has
\* stayed because deck and discard pile were both empty
C16_Witness ==
    \E j \in 1..NumPlayers :
       /\ strategies[j].kind = "BustProbability"
       /\ ~players[j].is_active
       /\ ~players[j].has_busted
       /\ DistinctCount(Hand(j - 1)) # 7
       /\ deck = <<>>
       /\ discard_pile = <<>>
       /\ WithinPct(Hand(j - 1), ThresholdPct(strategies[j], players[j].has_second_chance))

\* --------------------------------------------------------------------- C17
\* number of Number cards the player with index idx holds
NumberCount(idx) == Len(get_number_cards(Hand(idx)))

\* target of a CardCount strategy: target + 1 when scAware and protected
EffectiveTarget(s, has_sc) ==
    IF s.second_chance_aware /\ has_sc THEN s.target_count + 1 ELSE s.target_count

\* player j (1-based) is driven by CardCount(target, scAware = false)
PlainCardCount(j) ==
    strategies[j].kind = "CardCount" /\ ~strategies[j].second_chance_aware

HoldsFlipThree(idx) ==
    \E k \in 1..Len(Hand(idx)) : Hand(idx)[k].action_type = "flipThree"

C17_PastTarget ==
    \E j \in 1..NumPlayers :
       PlainCardCount(j) /\ NumberCount(j - 1) > strategies[j].target_count

\* --------------------------------------------------------------------- C18
\* a Hybrid strategy is about to be queried for a player holding at least
\* minCards Number cards with score >= targetPts
HybridAtTarget ==
    /\ pc = "turn_loop"
    /\ CanBeQueried
    /\ CurrentStrategy.kind = "Hybrid"
    /\ NumberCount(current_player_idx) >= CurrentStrategy.min_cards
    /\ Pipeline(Hand(current_player_idx), FALSE) >= CurrentStrategy.target_points

WithinTenOfTarget ==
    Pipeline(Hand(current_player_idx), FALSE) < CurrentStrategy.target_points + 10

\* the bust-probability check of the current player's strategy
CurrentBustCheck ==
    WithinPct(Hand(current_player_idx),
              ThresholdPct(CurrentStrategy, Current.has_second_chance))

\* C18 as stated: for a player holding at least minCards Number cards with
\* score >= targetPts the Hybrid strategy stays, unless the player holds Second
\* Chance and score < targetPts + 10, in which case the decision is that of the
\* bust-probability check; the exception applies to every protected player
\* within 10 points of target.
C18_Hybrid ==
    HybridAtTarget
       => IF Current.has_second_chance /\ WithinTenOfTarget
             THEN CurrentHit <=> CurrentBustCheck
             ELSE ~CurrentHit

\* C18 (amended): for a player holding at least minCards Number cards with
\* score >= targetPts the Hybrid strategy stays, unless the strategy is scAware
\* and the player holds Second Chance and score < targetPts + 10, in which case
\* the decision is that of the bust-probability check; a protected player of a
\* strategy that is not scAware stays.  The turn is a hit accordingly.
C18_HybridAwareOnly ==
    /\ [](HybridAtTarget
            => IF CurrentStrategy.second_chance_aware /\ Current.has_second_chance
                  /\ WithinTenOfTarget
                  THEN CurrentHit <=> CurrentBustCheck
                  ELSE ~CurrentHit)
    /\ [][ (HybridAtTarget /\ vars' # vars)
           => (pc' = "draw"
                 <=> /\ CurrentStrategy.second_chance_aware
                     /\ Current.has_second_chance
                     /\ WithinTenOfTarget
                     /\ CurrentBustCheck)
         ]_vars

\* a protected player of an scAware Hybrid strategy, at least at its target and
\* less than 10 points above it, has passed the bust-probability check and
\* started a hit
C18_Witness ==
    /\ pc = "draw"
    /\ draw_i = 0
    /\ CurrentStrategy.kind = "Hybrid"
    /\ CurrentStrategy.second_chance_aware
    /\ Current.has_second_chance
    /\ NumberCount(current_player_idx) >= CurrentStrategy.min_cards
    /\ Pipeline(Hand(current_player_idx), FALSE) >= CurrentStrategy.target_points
    /\ WithinTenOfTarget

\* --------------------------------------------------------------------- C19
\* the UltimateAdaptive strategy is about to be queried
UltimateAdaptiveQueried ==
    /\ pc = "turn_loop"
    /\ CanBeQueried
    /\ CurrentStrategy.kind = "UltimateAdaptive"

\* pointTarget of UltimateAdaptive: 40 + 2 x playerCount, + 10 when protected
PointTarget ==
    40 + 2 * NumPlayers + (IF Current.has_second_chance THEN 10 ELSE 0)

\* bust tolerance of UltimateAdaptive, per mille: 0.20 + (playerCount - 2) x
\* 0.02, doubled (capped at 1) when protected
BustTolerance ==
    LET base == 200 + (NumPlayers - 2) * 20
    IN IF Current.has_second_chance
          THEN (IF 2 * base > 1000 THEN 1000 ELSE 2 * base)
          ELSE base

\* C19: UltimateAdaptive returns hit whenever the player holds fewer than 3
\* Number cards, and whenever the player holds exactly 6 distinct Number cards
\* and has Second Chance, whatever the score, the bust probability, the player
\* count and the number of active players; the turn then is a hit.
C19_ForcedHits ==
    /\ [](( UltimateAdaptiveQueried
            /\ \/ NumberCount(current_player_idx) < 3
               \/ /\ DistinctCount(Hand(current_player_idx)) = 6
                  /\ Current.has_second_chance )
          => CurrentHit)
    /\ [][ ( UltimateAdaptiveQueried /\ vars' # vars
             /\ \/ NumberCount(current_player_idx) < 3
                \/ /\ DistinctCount(Hand(current_player_idx)) = 6
                   /\ Current.has_second_chance )
           => pc' = "draw"
         ]_vars

\* a protected UltimateAdaptive player holding 6 distinct Number cards, a score
\* 15 or more above its point target and a bust estimate above its tolerance,
\* the only player still active, has started a hit
C19_Witness ==
    /\ pc = "draw"
    /\ draw_i = 0
    /\ CurrentStrategy.kind = "UltimateAdaptive"
    /\ Current.has_second_chance
    /\ DistinctCount(Hand(current_player_idx)) = 6
    /\ NumberCount(current_player_idx) = 6
    /\ Pipeline(Hand(current_player_idx), FALSE) >= PointTarget + 15
    /\ DistinctSum(Hand(current_player_idx)) * 1000 > BustTolerance * 78
    /\ 2 * Len(get_active_players(players)) <= NumPlayers

\* --------------------------------------------------------------------- C20
\* UltimateAdaptive decides by a bust-probability comparison: no forced hit,
\* and the score is below pointTarget, or the player is protected and less
\* than 15 points above it
DecidedByBustCheck ==
    /\ UltimateAdaptiveQueried
    /\ NumberCount(current_player_idx) >= 3
    /\ ~(NumberCount(current_player_idx) = 6 /\ Current.has_second_chance)
    /\ \/ Pipeline(Hand(current_player_idx), FALSE) < PointTarget
       \/ /\ Current.has_second_chance
          /\ Pipeline(Hand(current_player_idx), FALSE) < PointTarget + 15

\* C20: whenever the number of players still active in the round is at most
\* half the player count, every bust-probability comparison made by
\* UltimateAdaptive (including the one made when protected and within 15
\* points above pointTarget) uses the tolerance multiplied by 0.8.
C20_HerdConservatism ==
    (DecidedByBustCheck /\ 2 * Len(get_active_players(players)) <= NumPlayers)
       => (CurrentHit
             <=> DistinctSum(Hand(current_player_idx)) * 10000
                    <= BustTolerance * 8 * 78)

\* --------------------------------------------------------------------- C22
\* C22: every player's total score never decreases over the match: it changes
\* only in the step that ends a round, where every player's total grows by that
\* player's round score; round scores are never negative; the total is not
\* reset or decreased between rounds.
C22_TotalOnlyGrows ==
    /\ [](\A j \in 1..NumPlayers :
             players[j].round_score >= 0 /\ players[j].score >= 0)
    /\ [][ /\ \A j \in 1..NumPlayers :
                 /\ players'[j].score >= players[j].score
                 /\ players'[j].score # players[j].score
                       => /\ pc \in {"scoring", "turn_loop"}
                          /\ pc' = "check_winner"
           /\ (pc # "check_winner" /\ pc' = "check_winner")
                 => \A j \in 1..NumPlayers :
                       /\ players'[j].score
                             = players[j].score + players[j].round_score
                       /\ players'[j].round_score = players[j].round_score
           /\ NumPlayers' = NumPlayers
         ]_vars

\* after the first round a round has just been scored: one player's total has
\* grown by a positive round score on top of an earlier total, and a player who
\* busted keeps the total of the earlier rounds
C22_Witness ==
    /\ pc = "check_winner"
    /\ round_number >= 2
    /\ \E j \in 1..NumPlayers :
          players[j].round_score > 0 /\ players[j].score > players[j].round_score
    /\ \E j \in 1..NumPlayers :
          players[j].has_busted /\ players[j].round_score = 0 /\ players[j].score > 0

\* --------------------------------------------------------------------- C23
\* a player as the reset of play_round leaves it
IsReset(p) ==
    /\ p.cards = <<>>
    /\ p.is_active
    /\ ~p.has_busted
    /\ ~p.has_second_chance
    /\ ~p.has_flip_three_active
    /\ p.round_score = 0

\* C23: at the start of every round, before the initial deal, every player has
\* an empty hand, is active, has not busted, holds neither Second Chance nor a
\* pending Flip Three and has round score 0; the reset leaves each player's
\* total score and id, the player order, dealer_idx and round_number (and the
\* deck and the discard pile) unchanged.
C23_RoundReset ==
    /\ []((pc = "deal" /\ deal_idx = 0)
             => \A j \in 1..NumPlayers : IsReset(players[j]))
    /\ [][ pc = "play_round"
           => /\ pc' = "deal"
              /\ deal_idx' = 0
              /\ Len(players') = Len(players)
              /\ \A j \in 1..NumPlayers :
                    /\ IsReset(players'[j])
                    /\ players'[j].score = players[j].score
                    /\ players'[j].id = players[j].id
              /\ UNCHANGED <<dealer_idx, round_number, current_player_idx,
                             deck, discard_pile, game_over, winner>>
         ]_vars

\* a round after the first has just been reset: cards of the earlier rounds
\* have left the deck, a player has a positive total, and every player is in
\* the reset state
C23_Witness ==
    /\ pc = "deal"
    /\ deal_idx = 0
    /\ round_number >= 2
    /\ dealer_idx > 0
    /\ Len(deck) + Len(discard_pile) < InitialDeckSize
    /\ \E j \in 1..NumPlayers : players[j].score > 0
    /\ \A j \in 1..NumPlayers : IsReset(players[j])

\* --------------------------------------------------------------------- C24
\* parameters in range: a probability in [0, 1], card and point targets >= 0
InRange(s) ==
    /\ s.max_bust_pct \in 0..100
    /\ s.target_count >= 0
    /\ s.target_points >= 0
    /\ s.min_cards >= 0

ValidConfiguration ==
    /\ strategies # <<>>
    /\ \A k \in 1..Len(strategies) : InRange(strategies[k])

\* C24: a match constructed with zero strategies, or with a strategy whose
\* parameter is out of range, is rejected with an invalid-configuration error
\* before any deck is built and before any simulation step runs: no
\* misconfigured match is in the round loop.
C24_FailFast ==
    ~ValidConfiguration
       => /\ pc = "InvalidConfiguration"
          /\ heap = <<>>
          /\ deck = <<>>
          /\ \A j \in 1..NumPlayers : IsReset(players[j]) /\ players[j].score = 0

\* --------------------------------------------------------------------- C25
IsFlipThree(c) == c.card_type = "action" /\ c.action_type = "flipThree"

\* the step adds a Flip Three card to the hand of player j (1-based)
AddsFlipThree(j) ==
    /\ Len(players'[j].cards) = Len(players[j].cards) + 1
    /\ IsFlipThree(heap'[players'[j].cards[Len(players'[j].cards)]])

\* the last card of the hand of player j is a Flip Three card
LastIsFlipThree(j) ==
    /\ players[j].cards # <<>>
    /\ IsFlipThree(heap[players[j].cards[Len(players[j].cards)]])

\* a hit draws 3 cards if has_flip_three_active is set and 1 otherwise, all
\* of them unless a bust without Second Chance ends the turn
DrawCounts ==
    /\ (pc = "turn_loop" /\ pc' = "draw")
          => /\ num_cards' = IF Current.has_flip_three_active THEN 3 ELSE 1
             /\ draw_i' = 0
    /\ (pc = "draw" /\ pc' = "draw")
          => draw_i' = draw_i + 1 /\ draw_i' < num_cards /\ num_cards' = num_cards
    /\ (pc = "draw" /\ pc' = "after_draw")
          => draw_i' = num_cards /\ draw_i = num_cards - 1 /\ num_cards' = num_cards
    /\ (pc = "draw" /\ pc' \notin {"draw", "after_draw"})
          => /\ NextDrawBusts
             /\ ~Current.has_second_chance
             /\ players'[current_player_idx + 1].has_busted

\* C25 as stated: a hit draws exactly 3 cards when has_flip_three_active is set
\* and exactly 1 otherwise (a bust without Second Chance abandons the rest), and
\* every Flip Three card a player adds to the hand, in the initial deal, in a
\* single draw or in the middle of a triple batch, makes that player's next hit
\* a hit of three cards: the flag is set when the card is added and is still set
\* when the player is next asked, so between turns an active player whose
\* latest card is a Flip Three card has the flag set.
C25_FlipThree ==
    /\ [][ /\ DrawCounts
           /\ \A j \in 1..NumPlayers :
                 AddsFlipThree(j) => players'[j].has_flip_three_active
         ]_vars
    /\ [](\A j \in 1..NumPlayers :
             (pc = "turn_loop" /\ players[j].is_active /\ LastIsFlipThree(j))
                => players[j].has_flip_three_active)

\* C25 (amended): a hit draws exactly 3 cards when has_flip_three_active is set
\* and exactly 1 otherwise (a bust without Second Chance abandons the rest).
\* The flag is set exactly by adding a Flip Three card to the hand (initial
\* deal, single draw, triple batch) and is cleared exactly by the round reset
\* and by the end of a completed triple batch that did not finish with Flip 7:
\* a Flip Three card added in the initial deal or in a single draw makes the
\* player's next hit a hit of three cards, one added during a triple batch is
\* cleared with that batch and causes no further triple draw.
C25_FlipThreeClearedByBatch ==
    [][ /\ DrawCounts
        /\ \A j \in 1..NumPlayers :
              /\ AddsFlipThree(j) => players'[j].has_flip_three_active
              /\ (~players[j].has_flip_three_active /\ players'[j].has_flip_three_active)
                    => AddsFlipThree(j)
              /\ (players[j].has_flip_three_active /\ ~players'[j].has_flip_three_active)
                    => \/ pc = "play_round"
                       \/ /\ pc = "after_draw" /\ num_cards = 3
                          /\ j = current_player_idx + 1
                          /\ DistinctCount(Hand(current_player_idx)) # 7
        /\ (pc = "after_draw" /\ num_cards = 3 /\ pc' = "turn_loop")
              => ~players'[current_player_idx + 1].has_flip_three_active
        /\ (pc = "after_draw" /\ num_cards = 1)
              => players'[current_player_idx + 1].has_flip_three_active
                    = Current.has_flip_three_active
      ]_vars

\* between turns an active player holds two Flip Three cards, the later one
\* drawn as the last card of the triple batch the first one caused, and the
\* flag is cleared
C25_Witness ==
    /\ pc = "turn_loop"
    /\ \E j \in 1..NumPlayers :
          /\ players[j].is_active
          /\ LastIsFlipThree(j)
          /\ ~players[j].has_flip_three_active
          /\ Cardinality({k \in 1..Len(players[j].cards) :
                             IsFlipThree(heap[players[j].cards[k]])}) >= 2

\* --------------------------------------------------------------------- C26
\* an active player without Flip 7 starts a turn holding 10 or more Number
\* cards
SafetyValve ==
    /\ pc = "turn_loop"
    /\ LoopCond
    /\ Current.is_active
    /\ DistinctCount(Hand(current_player_idx)) # 7
    /\ NumberCount(current_player_idx) >= 10

\* C26: when an active player without Flip 7 starts a turn holding 10 or more
\* Number cards, whatever the strategy would answer, no card is drawn (deck,
\* discard pile and hands are unchanged), the player's round score becomes the
\* plain hand score without bonus, the player is deactivated and nothing else
\* of it changes, the other players are unchanged, and the round continues:
\* the turn is counted and the next active player, if any, is up.
C26_SafetyValve ==
    [][ (SafetyValve /\ vars' # vars)
        => /\ pc' = "turn_loop"
           /\ UNCHANGED <<deck, discard_pile, heap, rng>>
           /\ players'[current_player_idx + 1]
                 = [Current EXCEPT
                      !.round_score = Pipeline(Hand(current_player_idx), FALSE),
                      !.is_active = FALSE]
           /\ OthersUnchanged(current_player_idx)
           /\ turn_count' = turn_count + 1
           /\ AnyActive(players')
                 => /\ players'[current_player_idx' + 1].is_active
                    /\ current_player_idx' # current_player_idx
      ]_vars

\* a player whose strategy answers hit has been made to stay with 10 Number
\* cards and its plain score, and another player is up
C26_Witness ==
    /\ pc = "turn_loop"
    /\ Current.is_active
    /\ \E j \in 1..NumPlayers :
          /\ j # current_player_idx + 1
          /\ ~players[j].is_active
          /\ ~players[j].has_busted
          /\ NumberCount(j - 1) >= 10
          /\ players[j].round_score = Pipeline(Hand(j - 1), FALSE)
          /\ should_hit(strategies[j], Hand(j - 1), players[j].has_second_chance,
                        Len(deck), Len(discard_pile), NumPlayers,
                        Len(get_active_players(players)) + 1)

\* --------------------------------------------------------------------- C27
\* the step leaves the turn loop of play_round: the round scores are added
RoundEnds == pc \in {"turn_loop", "scoring"} /\ pc' = "check_winner"

\* C27: every round terminates.  turn_count never exceeds 100 and no turn is
\* played at 100; the loop of play_round is left exactly when no player is
\* active, or a turn reported Flip 7, or 100 turns have been played; at the
\* turn limit, as in the other cases, the round scores are added to the totals
\* and play_game goes on to its winner check (no error); and every round that
\* has started reaches that point.
C27_RoundTerminates ==
    /\ [](turn_count <= 100 /\ pc # "IndexError")
    /\ [](pc \in {"draw", "after_draw"} => turn_count < 100)
    /\ [][ /\ (pc = "turn_loop" /\ vars' # vars)
              => (RoundEnds <=> (~AnyActive(players) \/ turn_count = 100))
           /\ (pc # "scoring" /\ pc' = "scoring")
              => /\ DistinctCount(Cards(players'[current_player_idx + 1].cards, heap)) = 7
                 /\ turn_count' = turn_count
           /\ (pc = "scoring" /\ vars' # vars) => RoundEnds
           /\ RoundEnds
              => \A j \in 1..NumPlayers :
                    players'[j].score = players[j].score + players[j].round_score
           /\ turn_count' \in {turn_count, turn_count + 1, 0}
         ]_vars
    /\ (pc = "deal") ~> (pc = "check_winner")

\* a round has ended at the turn limit: 100 turns were played, every player is
\* still active and no round score was banked
C27_Witness ==
    /\ pc = "check_winner"
    /\ turn_count = 100
    /\ \A j \in 1..NumPlayers :
          /\ players[j].is_active
          /\ players[j].round_score = 0
          /\ players[j].cards # <<>>

\* --------------------------------------------------------------------- C29
\* nobody has hit since the deal: every hand is the dealt card and nobody
\* busted (a hit adds a card to the hand or busts the player)
StayedSoFar ==
    \A j \in 1..NumPlayers : Len(players[j].cards) = 1 /\ ~players[j].has_busted

\* the place of the player with 0-based index idx in the cyclic order that
\* starts after the dealer
TurnOffset(idx) ==
    (idx + NumPlayers - ((dealer_idx + 1) % NumPlayers)) % NumPlayers

\* the players who stayed hold the score of their dealt card
StayedScores ==
    \A j \in 1..NumPlayers :
        ~players[j].is_active
           => players[j].round_score = calculate_score(Hand(j - 1), FALSE)

\* the turns of a round without a hit, as far as it has come: after turn_count
\* turns the first turn_count players of the cyclic order have stayed with the
\* score of their dealt card, the others are active, and the next one of the
\* order is the current player
StayedInOrder ==
    (pc = "turn_loop" /\ StayedSoFar)
       => /\ \A j \in 1..NumPlayers :
                players[j].is_active <=> TurnOffset(j - 1) >= turn_count
          /\ turn_count < NumPlayers
                => current_player_idx = (dealer_idx + 1 + turn_count) % NumPlayers
          /\ StayedScores

\* a turn in which the strategy stays on its dealt card draws nothing
StayDrawsNothing ==
    (pc = "turn_loop" /\ StayedSoFar /\ LoopCond /\ ~CurrentHit)
       => /\ UNCHANGED <<deck, discard_pile, heap, rng>>
          /\ pc' = "turn_loop"
          /\ turn_count' = turn_count + 1
          /\ StayedSoFar'

\* C29 as stated: a round in which every strategy stays when first asked is
\* one turn per player, in cyclic order from (dealer_idx + 1) mod n, draws no
\* card after the deal, and leaves every player with the score of the card it
\* was dealt.
C29_OneTurnEach ==
    /\ []StayedInOrder
    /\ [][StayDrawsNothing]_vars
    /\ [][ (RoundEnds /\ StayedSoFar)
              => /\ turn_count = NumPlayers
                 /\ \A j \in 1..NumPlayers : ~players[j].is_active
                 /\ StayedScores
          ]_vars

\* C29 with the turn limit of play_round: the round is one turn per player
\* when there are at most 100 players; with more players it ends after 100
\* turns, and the players from place 100 of the cyclic order on had no turn:
\* they are still active and their round score is 0.
C29_OneTurnEachUpToLimit ==
    /\ []StayedInOrder
    /\ [][StayDrawsNothing]_vars
    /\ [][ (RoundEnds /\ StayedSoFar)
              => /\ StayedScores
                 /\ NumPlayers <= 100
                       => /\ turn_count = NumPlayers
                          /\ \A j \in 1..NumPlayers : ~players[j].is_active
                 /\ NumPlayers > 100
                       => /\ turn_count = 100
                          /\ \A j \in 1..NumPlayers :
                                TurnOffset(j - 1) >= 100
                                   => /\ players[j].is_active
                                      /\ players[j].round_score = 0
          ]_vars

\* the end of a round of three staying players that started with player 2:
\* three turns, nobody active, every hand the dealt card
C29_Witness ==
    /\ pc = "check_winner"
    /\ StayedSoFar
    /\ NumPlayers = 3
    /\ dealer_idx = 1
    /\ turn_count = NumPlayers
    /\ \A j \in 1..NumPlayers :
          /\ ~players[j].is_active
          /\ players[j].round_score = calculate_score(Hand(j - 1), FALSE)
    /\ \E j \in 1..NumPlayers : players[j].round_score > 0

\* --------------------------------------------------------------------- C30
\* the reset of play_round
ResetStep == pc = "play_round" /\ pc' = "deal"

\* the fields that describe a player's round
RoundFields(p) ==
    <<p.is_active, p.cards, p.round_score, p.has_busted, p.has_second_chance,
      p.has_flip_three_active>>

\* play_turn is called for a player whose round has ended
CallOnInactive == pc = "turn_loop" /\ LoopCond /\ ~Current.is_active /\ vars' # vars

\* C30: the states a player's round ends in are terminal.  A player becomes
\* inactive by a bust (round score 0), by a stay or forced stay (the score of
\* the hand) or by Flip 7 (the score with the bonus); from then on, in every
\* step but the reset of the next round, the player stays inactive and its
\* hand, round score, has_busted, Second Chance and Flip Three flags keep
\* their values; and play_turn called for an inactive player changes no
\* player, deck, discard pile or card and lets the round continue with the
\* next player.
C30_TerminalStates ==
    /\ [][ \A j \in 1..NumPlayers :
              (players[j].is_active /\ ~players'[j].is_active)
                 => LET hand == Cards(players'[j].cards, heap')
                    IN \/ players'[j].has_busted /\ players'[j].round_score = 0
                       \/ /\ ~players'[j].has_busted
                          /\ players'[j].round_score
                                = calculate_score(hand, DistinctCount(hand) = 7)
          ]_vars
    /\ [][ \A j \in 1..NumPlayers :
              (~players[j].is_active /\ ~ResetStep)
                 => RoundFields(players'[j]) = RoundFields(players[j])
          ]_vars
    /\ [][ CallOnInactive
              => /\ players' = players
                 /\ UNCHANGED <<deck, discard_pile, heap, rng, strategies,
                                dealer_idx, round_number, game_over, winner>>
                 /\ pc' = "turn_loop"
                 /\ turn_count' = turn_count + 1
                 /\ current_player_idx' = next_player(current_player_idx, players)
          ]_vars

\* play_turn has just returned for a busted player: the player is as it was,
\* the other players have not moved, and it is the next player's turn
C30_Witness ==
    /\ pc = "turn_loop"
    /\ round_number = 1
    /\ turn_count = NumPlayers + 1
    /\ NumPlayers = 3
    /\ current_player_idx = 2
    /\ ~players[2].is_active
    /\ players[2].has_busted
    /\ players[2].round_score = 0
    /\ Len(players[2].cards) = 4
    /\ \A j \in {1, 3} : players[j].is_active /\ Len(players[j].cards) = 2

\* --------------------------------------------------------------------- C31
\* the draw about to be made refills the deck from the discard pile
Reshuffles == pc \in {"deal", "draw"} /\ deck = <<>> /\ discard_pile # <<>>

\* the draw about to be made is a duplicate that Second Chance cancels
CancelsDuplicate == pc = "draw" /\ Current.has_second_chance /\ NextDrawBusts

AllNumberCards(refs, hp) ==
    \A k \in 1..Len(refs) : hp[refs[k]].card_type = "number"

\* C31: the discard pile holds Number cards only.  It changes in two ways
\* only: a draw that Second Chance cancels appends the drawn duplicate (the
\* hand is unchanged), and a draw from an empty deck empties it into the
\* deck.  No stay, bust, end of round or reset adds a card.  The deck a
\* reshuffle leaves, and the card it yields, are Number cards.
C31_DiscardOnlyCancelled ==
    /\ []AllNumberCards(discard_pile, heap)
    /\ [][ discard_pile' # discard_pile
              => /\ Reshuffles \/ CancelsDuplicate
                 /\ discard_pile' =
                       IF CancelsDuplicate
                          THEN Append(NextDraw.discard_pile, NextDraw.card)
                          ELSE <<>>
                 /\ CancelsDuplicate
                       => /\ heap'[NextDraw.card].card_type = "number"
                          /\ players'[current_player_idx + 1].cards = Current.cards
          ]_vars
    /\ [][ Reshuffles
              => /\ AllNumberCards(deck', heap')
                 /\ heap'[NextDraw.card].card_type = "number"
                 /\ Range(deck') \cup {NextDraw.card} = Range(discard_pile)
                 /\ heap' = heap
          ]_vars

\* three cancelled duplicates lie on the discard pile and the deck is used up:
\* the next draw reshuffles them
C31_Witness ==
    /\ Reshuffles
    /\ Len(discard_pile) >= 3
    /\ AllNumberCards(discard_pile, heap)
    /\ \E j \in 1..NumPlayers : players[j].cards # <<>> /\ ~players[j].is_active

\* --------------------------------------------------------------------- C32

\* C32: in every state the Number cards of every hand have pairwise distinct
\* values: the number of Number cards held equals the number of distinct
\* values held and is at most 13.  A drawn duplicate is never added to the
\* hand: the hand is the same after the draw, and the player has either
\* busted or used up Second Chance.
C32_DistinctNumberCards ==
    /\ [](\A j \in 1..NumPlayers :
            /\ NumberCount(j - 1) = Cardinality(DistinctValues(j - 1))
            /\ NumberCount(j - 1) <= 13)
    /\ [][ (pc = "draw" /\ NextDrawBusts)
              => /\ players'[current_player_idx + 1].cards = Current.cards
                 /\ IF Current.has_second_chance
                       THEN /\ ~players'[current_player_idx + 1].has_second_chance
                            /\ ~players'[current_player_idx + 1].has_busted
                       ELSE players'[current_player_idx + 1].has_busted
          ]_vars

\* a player has busted on a duplicate while holding six Number cards of
\* distinct values, and a cancelled duplicate lies on the discard pile
C32_Witness ==
    /\ discard_pile # <<>>
    /\ \E j \in 1..NumPlayers :
          /\ players[j].has_busted
          /\ NumberCount(j - 1) >= 6
          /\ NumberCount(j - 1) = Cardinality(DistinctValues(j - 1))

\* --------------------------------------------------------------------- C33
\* the round has ended by Flip 7 (play_turn returned False)
EndedByFlip7 == pc = "scoring"

\* the round has ended by the limit of 100 turns with a player still active
EndedByTurnLimit == pc = "turn_loop" /\ turn_count >= 100 /\ AnyActive(players)

\* players still active at a state
StillActive == {j \in 1..NumPlayers : players[j].is_active}

\* C33: when a round ends by Flip 7 or by the limit of 100 turns, every player
\* still active at that moment has a round score of 0 and the scoring of the
\* round leaves that player's total unchanged; the cards held are not banked.
C33_ActiveScoreNothing ==
    /\ []((EndedByFlip7 \/ EndedByTurnLimit)
            => \A j \in StillActive : players[j].round_score = 0)
    /\ [][ (EndedByFlip7 \/ EndedByTurnLimit)
              => /\ pc' = "check_winner"
                 /\ \A j \in StillActive :
                       /\ players'[j].score = players[j].score
                       /\ players'[j].round_score = 0
                       /\ players'[j].cards = players[j].cards
          ]_vars

\* a round ended by Flip 7 has been scored while another player, holding cards
\* worth points, was still active
C33_WitnessFlip7 ==
    /\ pc = "check_winner"
    /\ \E j \in StillActive : calculate_score(Hand(j - 1), FALSE) > 0
    /\ \E k \in 1..NumPlayers : has_flip7(Hand(k - 1)) /\ players[k].round_score > 0

\* a round ended by the limit of 100 turns has been scored while a player
\* holding cards worth points was still active
C33_WitnessLimit ==
    /\ pc = "check_winner"
    /\ turn_count >= 100
    /\ \E j \in StillActive : calculate_score(Hand(j - 1), FALSE) > 0

\* --------------------------------------------------------------------- C34
\* play_turn is about to be called for an active player
TurnOfActive == pc = "turn_loop" /\ LoopCond /\ Current.is_active

\* C34: at the start of every turn of an active player has_flip7() is false,
\* so the branch "Check for Flip 7 before turn" of play_turn is never taken: no
\* active player holds exactly 7 distinct values between turns, a hand comes
\* to hold 7 distinct values only by a draw of a hit, and a hit that ends
\* with 7 distinct values ends the round.
C34_NoFlip7BeforeTurn ==
    /\ [](TurnOfActive => ~has_flip7(Hand(current_player_idx)))
    /\ [](pc \in {"turn_loop", "play_round", "deal"}
            => \A j \in StillActive : ~has_flip7(Hand(j - 1)))
    /\ [][ TurnOfActive => pc' # "scoring" ]_vars
    /\ [][ \A j \in 1..NumPlayers :
              (~has_flip7(Hand(j - 1)) /\ has_flip7(Cards(players'[j].cards, heap')))
                 => pc = "draw" /\ j = current_player_idx + 1 ]_vars
    /\ [][ (pc = "after_draw" /\ has_flip7(Hand(current_player_idx)))
              => pc' = "scoring" /\ ~players'[current_player_idx + 1].is_active ]_vars

\* an active player holding 6 distinct values has passed the checks at the
\* start of the turn and begins a hit
C34_Witness ==
    /\ pc = "draw" /\ draw_i = 0
    /\ Current.is_active
    /\ Cardinality(DistinctValues(current_player_idx)) = 6

\* the same with a hand that a Flip Three batch took from 6 to 8 values
C34_WitnessEight ==
    /\ pc = "draw" /\ draw_i = 0
    /\ Current.is_active
    /\ Cardinality(DistinctValues(current_player_idx)) >= 8

\* --------------------------------------------------------------------- C35
\* number of Second Chance cards in the hand of the player with index idx
SecondChanceCards(idx) ==
    Len(SelectSeq(Hand(idx), LAMBDA c : c.action_type = "secondChance"))

\* the current player is about to draw a Second Chance card
DrawsSecondChance ==
    /\ pc = "draw" /\ ~NextDraw.error
    /\ NextDraw.heap[NextDraw.card].action_type = "secondChance"

\* C35: Second Chance does not stack.  The protection is one flag: it is set
\* whenever a Second Chance card is added, also in the middle of a Flip Three
\* batch, whose later draws it then protects; one cancelled duplicate clears
\* it however many Second Chance cards the hand holds; and a duplicate drawn
\* without the flag busts the player however many Second Chance cards the
\* hand holds.
C35_SecondChanceDoesNotStack ==
    /\ [](\A j \in 1..NumPlayers :
            /\ players[j].has_second_chance \in BOOLEAN
            /\ players[j].has_second_chance => SecondChanceCards(j - 1) >= 1)
    /\ [][ DrawsSecondChance
              => /\ players'[current_player_idx + 1].has_second_chance
                 /\ players'[current_player_idx + 1].cards
                       = Append(Current.cards, NextDraw.card)
                 /\ draw_i + 1 < num_cards
                       => pc' = "draw" /\ current_player_idx' = current_player_idx
          ]_vars
    /\ [][ CancelsDuplicate
              => /\ ~players'[current_player_idx + 1].has_second_chance
                 /\ players'[current_player_idx + 1].cards = Current.cards
                 /\ players'[current_player_idx + 1].is_active
          ]_vars
    /\ [][ (pc = "draw" /\ NextDrawBusts /\ ~Current.has_second_chance)
              => /\ players'[current_player_idx + 1].has_busted
                 /\ ~players'[current_player_idx + 1].is_active
                 /\ pc' = "turn_loop"
          ]_vars

\* in the first round a player has busted on the third draw of a Flip Three
\* batch while holding two Second Chance cards, the later of them the last
\* card added to the hand; the only card ever discarded is a duplicate of a
\* value of that hand and nobody else has busted: the player added both cards
\* before the first duplicate, the card drawn in the batch cancelled that
\* duplicate, and the second duplicate was not protected
C35_Witness ==
    /\ round_number = 1
    /\ pc = "turn_loop" /\ num_cards = 3 /\ draw_i = 2
    /\ Len(discard_pile) = 1
    /\ \E j \in 1..NumPlayers :
          /\ players[j].has_busted
          /\ \A k \in 1..NumPlayers : players[k].has_busted => k = j
          /\ SecondChanceCards(j - 1) >= 2
          /\ heap[players[j].cards[Len(players[j].cards)]].action_type = "secondChance"
          /\ heap[discard_pile[1]].value \in DistinctValues(j - 1)

\* a busted player holds two Second Chance cards
C35_WitnessTwoCards ==
    \E j \in 1..NumPlayers : players[j].has_busted /\ SecondChanceCards(j - 1) >= 2

\* the second draw of a Flip Three batch was cancelled by the Second Chance
\* card that its first draw added
C35_WitnessInBatch ==
    /\ pc = "draw" /\ num_cards = 3 /\ draw_i = 2
    /\ ~Current.has_second_chance
    /\ Current.cards # <<>>
    /\ heap[Current.cards[Len(Current.cards)]].action_type = "secondChance"

\* ------------------------------------------------------------ run_simulation
\* the whole percentages pct in 0..1000 for which the float product
\* (pct / 100) * 100 is just below pct: 0.29 * 100 is 28.999999999999996
ShortPercents ==
    {29, 57, 58, 113, 114, 115, 116, 201, 203, 205, 207, 226, 228, 230, 232,
     251, 253, 255, 402, 406, 410, 414, 427, 431, 435, 439, 452, 456, 460, 464,
     477, 481, 485, 489, 502, 506, 510, 803, 804, 812, 820, 828, 829, 837, 845,
     853, 854, 862, 870, 878, 879, 887, 895, 903, 904, 912, 920, 928, 929, 937,
     945, 953, 954, 962, 970, 978, 979, 987, 995}

\* int(max_bust_probability * 100) for the probability pct / 100,
\* -1000 <= pct <= 1000: int() truncates the float product towards zero
IntPercent(pct) ==
    IF pct >= 0 THEN (IF pct \in ShortPercents THEN pct - 1 ELSE pct)
    ELSE (IF -pct \in ShortPercents THEN pct + 1 ELSE pct)

\* BotStrategy.name as the constructors build it
StrategyName(s) ==
    LET suffix == IF s.second_chance_aware THEN "_SC" ELSE ""
    IN CASE s.kind = "BustProbability" ->
              "BustProb_" \o ToString(IntPercent(s.max_bust_pct)) \o "%" \o suffix
         [] s.kind = "CardCount" -> "CardCount_" \o ToString(s.target_count) \o suffix
         [] s.kind = "PointThreshold" -> "PointThreshold_" \o ToString(s.target_points)
         [] s.kind = "Hybrid" ->
              "Hybrid_C" \o ToString(s.min_cards) \o "_P" \o ToString(s.target_points)
                 \o "_B" \o ToString(IntPercent(s.max_bust_pct)) \o "%" \o suffix
         [] OTHER -> "Ultimate_Adaptive"

\* Player.name of the player with index j - 1: f"{strategy.name}"
PlayerName(j) == StrategyName(strategies[j])

\* Counter.__getitem__: 0 for a missing key
Get(c, k) == IF k \in DOMAIN c THEN c[k] ELSE 0

\* c[k] += n
Inc(c, k, n) == [x \in DOMAIN c \cup {k} |-> Get(c, x) + (IF x = k THEN n ELSE 0)]

\* a tally that counts a bust for every player
RECURSIVE TallyPlayersAllBust(_, _, _, _)
TallyPlayersAllBust(res, idx, plrs, hp) ==
    IF idx > Len(plrs) THEN res
    ELSE LET p == plrs[idx]
             r1 == [res EXCEPT !.total_scores = Inc(@, PlayerName(idx), p.score),
                               !.bust_counts = Inc(@, PlayerName(idx), 1)]
             r2 == IF has_flip7(Cards(p.cards, hp))
                      THEN [r1 EXCEPT !.flip7_counts = Inc(@, PlayerName(idx), 1)]
                      ELSE r1
         IN TallyPlayersAllBust(r2, idx + 1, plrs, hp)

\* "for player in game.game_state.players": total score, bust and Flip 7
RECURSIVE TallyPlayers(_, _, _, _)
TallyPlayers(res, idx, plrs, hp) ==
    IF idx > Len(plrs) THEN res
    ELSE LET p == plrs[idx]
             r1 == [res EXCEPT !.total_scores = Inc(@, PlayerName(idx), p.score)]
             r2 == IF p.has_busted
                      THEN [r1 EXCEPT !.bust_counts = Inc(@, PlayerName(idx), 1)]
                      ELSE r1
             r3 == IF has_flip7(Cards(p.cards, hp))
                      THEN [r2 EXCEPT !.flip7_counts = Inc(@, PlayerName(idx), 1)]
                      ELSE r2
         IN TallyPlayers(r3, idx + 1, plrs, hp)

SimLists ==
    << <<CardCountStrategy(5, FALSE), PointThresholdStrategy(45)>>,
       <<PointThresholdStrategy(1000)>>,
       <<CardCountStrategy(7, TRUE), CardCountStrategy(7, TRUE)>>,
       <<BustProbabilityStrategy(15, FALSE), BustProbabilityStrategy(25, FALSE),
         CardCountStrategy(5, FALSE), PointThresholdStrategy(45),
         HybridStrategy(3, 50, 20, FALSE)>>,
       <<BustProbabilityStrategy(29, FALSE), BustProbabilityStrategy(28, FALSE),
         HybridStrategy(3, 50, 29, TRUE)>> >>

MaxGames == 3

\* run_simulation(strategies, num_games) up to the loop over the matches
SimInit ==
    \E k \in 1..Len(SimLists), seed \in {22, 23}, num_games \in {1, MaxGames} :
        /\ strategies = SimLists[k]
        /\ rng = SeededGen[seed]
        /\ results = [NoResults EXCEPT !.games_played = num_games]
        /\ game_num = 0
        /\ pc = "simulate"
        /\ heap = <<>>
        /\ deck = <<>>
        /\ discard_pile = <<>>
        /\ players = <<>>
        /\ current_player_idx = 0
        /\ dealer_idx = 0
        /\ round_number = 0
        /\ game_over = FALSE
        /\ winner = -1
        /\ turn_count = 0
        /\ deal_idx = 0
        /\ num_cards = 0
        /\ draw_i = 0

\* "for game_num in range(num_games)": game = Flip7Game(strategies) and the
\* initialize_game of its play_game
NewGame ==
    /\ pc = "simulate"
    /\ game_num < results.games_played
    /\ LET n == Len(strategies)
           d == CreateDeckOrdered(n)
           sh == Shuffle([i \in 1..Len(d) |-> i], rng)
       IN /\ heap' = d
          /\ deck' = sh.list
          /\ rng' = sh.rng
          /\ discard_pile' = <<>>
          /\ players' = [i \in 1..n |-> NewPlayer(i - 1)]
          /\ current_player_idx' = 1 % n
          /\ dealer_idx' = 0
          /\ round_number' = 1
          /\ game_over' = FALSE
          /\ winner' = -1
          /\ pc' = "play_round"
          /\ turn_count' = 0
          /\ deal_idx' = 0
          /\ num_cards' = 0
          /\ draw_i' = 0
    /\ UNCHANGED <<strategies, results, game_num>>

\* the loop body after play_game has returned the winner
TallyGame ==
    /\ pc = "done"
    /\ game_num < results.games_played
    /\ results' =
          TallyPlayers([results EXCEPT
                           !.wins = Inc(@, PlayerName(winner + 1), 1),
                           !.avg_rounds_per_game =
                               Inc(@, PlayerName(winner + 1), round_number)],
                       1, players, heap)
    /\ game_num' = game_num + 1
    /\ pc' = "simulate"
    /\ UNCHANGED <<strategies, rng, heap, deck, discard_pile, players,
                   current_player_idx, dealer_idx, round_number, game_over,
                   winner, turn_count, deal_idx, num_cards, draw_i>>

\* the loop over the matches is over
FinishSimulation ==
    /\ pc = "simulate"
    /\ game_num >= results.games_played
    /\ pc' = "statistics"
    /\ UNCHANGED <<strategies, results, game_num, rng, heap, deck, discard_pile,
                   players, current_player_idx, dealer_idx, round_number,
                   game_over, winner, turn_count, deal_idx, num_cards, draw_i>>

\* the nearest integer to a / b (a >= 0, b > 0), a tie going to the even one
RoundHalfEven(a, b) ==
    LET q == a \div b
        r == a % b
    IN IF 2 * r < b THEN q
       ELSE IF 2 * r > b THEN q + 1
       ELSE IF q % 2 = 0 THEN q ELSE q + 1

\* one row of stats_data.  round(x, 2) is given in hundredths and round(x, 1)
\* in tenths: 'Win_Rate_%' 3333 is 33.33, 'Avg_Final_Score' 1045 is 104.5.
\* For num_games < 20 and num_games * len(strategies) < 32 a quotient that
\* lies half way between two results is a float without rounding error, and
\* round() takes the even one.
StatsRow(res, name, num_strategies) ==
    LET num_games == res.games_played
        wins == Get(res.wins, name)
        bust_count == Get(res.bust_counts, name)
        flip7_count == Get(res.flip7_counts, name)
    IN [k \in {"Strategy", "Wins", "Win_Rate_%", "Avg_Final_Score",
               "Avg_Rounds_to_Win", "Total_Busts", "Flip7_Count", "Bust_Rate_%"} |->
          CASE k = "Strategy" -> name
            [] k = "Wins" -> wins
            [] k = "Win_Rate_%" -> RoundHalfEven(wins * 10000, num_games)
            [] k = "Avg_Final_Score" ->
                 RoundHalfEven(Get(res.total_scores, name) * 10, num_games)
            [] k = "Avg_Rounds_to_Win" ->
                 RoundHalfEven(Get(res.avg_rounds_per_game, name) * 10, Max(wins, 1))
            [] k = "Total_Busts" -> bust_count
            [] k = "Flip7_Count" -> flip7_count
            [] OTHER ->
                 RoundHalfEven(bust_count * 10000, num_games * num_strategies)]

\* "Calculate statistics" to the return of run_simulation, export_to_excel
\* being False: one row for every strategy of the list, and
\* results['stats_dataframe'] = pd.DataFrame(stats_data)
CalculateStatistics ==
    /\ pc = "statistics"
    /\ results' =
          [wins |-> results.wins,
           total_scores |-> results.total_scores,
           games_played |-> results.games_played,
           bust_counts |-> results.bust_counts,
           flip7_counts |-> results.flip7_counts,
           avg_rounds_per_game |-> results.avg_rounds_per_game,
           stats_dataframe |->
              [j \in 1..Len(strategies) |->
                  StatsRow(results, PlayerName(j), Len(strategies))]]
    /\ pc' = "returned"
    /\ UNCHANGED <<strategies, game_num, rng, heap, deck, discard_pile,
                   players, current_player_idx, dealer_idx, round_number,
                   game_over, winner, turn_count, deal_idx, num_cards, draw_i>>

SimNext ==
    \/ NewGame
    \/ Next
    \/ TallyGame
    \/ FinishSimulation
    \/ CalculateStatistics

SimSpec == SimInit /\ [][SimNext]_vars

\* ----------------------------------------------- run_comprehensive_experiment
\* random.sample(population, k) for k <= 5, where setsize is 21: a pool of
\* the population for n <= 21, a set of the indices taken for a larger n
Sample(population, k, g) ==
    LET n == Len(population)
        RECURSIVE FromPool(_, _, _, _)
        Picked(pool, i, r, result) ==
            FromPool([pool EXCEPT ![r.value + 1] = pool[n - i]], i + 1, r.rng,
                     Append(result, pool[r.value + 1]))
        FromPool(pool, i, g1, result) ==
            IF i = k THEN [list |-> result, rng |-> g1]
            ELSE Picked(pool, i, RandBelow(n - i, g1), result)
        RECURSIVE FromSet(_, _, _, _)
        Selected(selected, i, r, result) ==
            IF r.value \in selected THEN FromSet(selected, i, r.rng, result)
            ELSE FromSet(selected \cup {r.value}, i + 1, r.rng,
                         Append(result, population[r.value + 1]))
        FromSet(selected, i, g1, result) ==
            IF i = k THEN [list |-> result, rng |-> g1]
            ELSE Selected(selected, i, RandBelow(n, g1), result)
    IN IF n <= 21 THEN FromPool(population, 0, g, <<>>)
       ELSE FromSet({}, 0, g, <<>>)

\* all_strategies: distinct strategy objects
ExperimentLists ==
    << <<BustProbabilityStrategy(15, FALSE), BustProbabilityStrategy(25, FALSE),
         CardCountStrategy(5, FALSE), PointThresholdStrategy(45),
         HybridStrategy(3, 50, 20, FALSE)>>,
       <<CardCountStrategy(7, TRUE), CardCountStrategy(7, TRUE)>>,
       <<PointThresholdStrategy(1000)>>,
       <<CardCountStrategy(2, FALSE), CardCountStrategy(3, FALSE),
         CardCountStrategy(4, FALSE), CardCountStrategy(5, FALSE)>> >>

\* run_comprehensive_experiment(all_strategies, ..., games_per_matchup) up to
\* the loop over the strategies: i is -1 and df is empty until they are bound
ExperimentInit ==
    \E k \in 1..Len(ExperimentLists), seed \in {22, 23},
       games_per_matchup \in 1..MaxGames :
        /\ results = [all_strategies |-> ExperimentLists[k],
                      games_per_matchup |-> games_per_matchup,
                      all_results |-> <<>>, i |-> -1, win_count |-> 0,
                      total_score |-> 0, bust_count |-> 0, flip7_count |-> 0,
                      df |-> <<>>]
        /\ rng = SeededGen[seed]
        /\ strategies = <<>>
        /\ game_num = 0
        /\ pc = "experiment"
        /\ heap = <<>>
        /\ deck = <<>>
        /\ discard_pile = <<>>
        /\ players = <<>>
        /\ current_player_idx = 0
        /\ dealer_idx = 0
        /\ round_number = 0
        /\ game_over = FALSE
        /\ winner = -1
        /\ turn_count = 0
        /\ deal_idx = 0
        /\ num_cards = 0
        /\ draw_i = 0

\* "for i, strategy in enumerate(all_strategies)": the next strategy, its
\* counts at 0
NextStrategy ==
    /\ pc = "experiment"
    /\ results.i + 1 < Len(results.all_strategies)
    /\ results' = [results EXCEPT !.i = @ + 1, !.win_count = 0, !.total_score = 0,
                                  !.bust_count = 0, !.flip7_count = 0]
    /\ game_num' = 0
    /\ pc' = "matchups"
    /\ UNCHANGED <<strategies, rng, heap, deck, discard_pile, players,
                   current_player_idx, dealer_idx, round_number, game_over,
                   winner, turn_count, deal_idx, num_cards, draw_i>>

\* "for game_num in range(games_per_matchup)": the opponents are sampled from
\* the other strategy objects, game = Flip7Game([strategy] + opponents), and
\* the initialize_game of its play_game
NewMatchup ==
    /\ pc = "matchups"
    /\ game_num < results.games_per_matchup
    /\ \E opponents \in
           {Sample(SelectSeq([j \in 1..Len(results.all_strategies) |-> j],
                             LAMBDA j : j # results.i + 1),
                   Min(3, Len(results.all_strategies) - 1), rng)} :
         LET game_strategies ==
                 <<results.all_strategies[results.i + 1]>>
                    \o [j \in 1..Len(opponents.list) |->
                           results.all_strategies[opponents.list[j]]]
             n == Len(game_strategies)
             d == CreateDeckOrdered(n)
         IN \E sh \in {Shuffle([j \in 1..Len(d) |-> j], opponents.rng)} :
              /\ strategies' = game_strategies
              /\ heap' = d
              /\ deck' = sh.list
              /\ rng' = sh.rng
              /\ players' = [j \in 1..n |-> NewPlayer(j - 1)]
              /\ current_player_idx' = 1 % n
    /\ discard_pile' = <<>>
    /\ dealer_idx' = 0
    /\ round_number' = 1
    /\ game_over' = FALSE
    /\ winner' = -1
    /\ pc' = "play_round"
    /\ turn_count' = 0
    /\ deal_idx' = 0
    /\ num_cards' = 0
    /\ draw_i' = 0
    /\ UNCHANGED <<results, game_num>>

\* the loop body after play_game has returned the winner: the counts of
\* test_player, who is game.game_state.players[0]
TallyTestPlayer ==
    /\ pc = "done"
    /\ results' =
          [results EXCEPT
              !.win_count = @ + (IF winner = 0 THEN 1 ELSE 0),
              !.total_score = @ + players[1].score,
              !.bust_count = @ + (IF players[1].has_busted THEN 1 ELSE 0),
              !.flip7_count =
                  @ + (IF has_flip7(Cards(players[1].cards, heap)) THEN 1 ELSE 0)]
    /\ game_num' = game_num + 1
    /\ pc' = "matchups"
    /\ UNCHANGED <<strategies, rng, heap, deck, discard_pile, players,
                   current_player_idx, dealer_idx, round_number, game_over,
                   winner, turn_count, deal_idx, num_cards, draw_i>>

\* the matches of the strategy are over: all_results.append({...}), with
\* round(x, 2) in hundredths and round(x, 1) in tenths as in StatsRow
AppendResult ==
    /\ pc = "matchups"
    /\ game_num >= results.games_per_matchup
    /\ results' =
          [results EXCEPT !.all_results = Append(@,
              [k \in {"Strategy", "Wins", "Games", "Win_Rate_%", "Avg_Final_Score",
                      "Total_Busts", "Flip7_Count", "Bust_Rate_%"} |->
                 CASE k = "Strategy" ->
                        StrategyName(results.all_strategies[results.i + 1])
                   [] k = "Wins" -> results.win_count
                   [] k = "Games" -> results.games_per_matchup
                   [] k = "Win_Rate_%" ->
                        RoundHalfEven(results.win_count * 10000,
                                      results.games_per_matchup)
                   [] k = "Avg_Final_Score" ->
                        RoundHalfEven(results.total_score * 10,
                                      results.games_per_matchup)
                   [] k = "Total_Busts" -> results.bust_count
                   [] k = "Flip7_Count" -> results.flip7_count
                   [] OTHER ->
                        RoundHalfEven(results.bust_count * 10000,
                                      results.games_per_matchup)])]
    /\ pc' = "experiment"
    /\ UNCHANGED <<strategies, game_num, rng, heap, deck, discard_pile, players,
                   current_player_idx, dealer_idx, round_number, game_over,
                   winner, turn_count, deal_idx, num_cards, draw_i>>

\* the loop over the strategies is over: df = pd.DataFrame(all_results),
\* sorted by 'Win_Rate_%', the highest first, and returned.  The sort is
\* pandas' default (quicksort, not stable): rows of equal rate come in any
\* order.  The prints and the Excel file are not part of the state.
FinishExperiment ==
    /\ pc = "experiment"
    /\ results.i + 1 >= Len(results.all_strategies)
    /\ \E order \in [1..Len(results.all_results) -> 1..Len(results.all_results)] :
         /\ \A a, b \in DOMAIN order : a # b => order[a] # order[b]
         /\ \A a, b \in DOMAIN order :
               a < b => results.all_results[order[a]]["Win_Rate_%"]
                           >= results.all_results[order[b]]["Win_Rate_%"]
         /\ results' = [results EXCEPT !.df =
                           [a \in DOMAIN order |-> results.all_results[order[a]]]]
    /\ pc' = "returned"
    /\ UNCHANGED <<strategies, game_num, rng, heap, deck, discard_pile, players,
                   current_player_idx, dealer_idx, round_number, game_over,
                   winner, turn_count, deal_idx, num_cards, draw_i>>

ExperimentNext ==
    \/ NextStrategy
    \/ NewMatchup
    \/ Next
    \/ TallyTestPlayer
    \/ AppendResult
    \/ FinishExperiment

ExperimentSpec == ExperimentInit /\ [][ExperimentNext]_vars

\* --------------------------------------------------------------------- C36
\* the names of the strategies of the simulation
Names == {PlayerName(j) : j \in 1..Len(strategies)}

\* the players that carry the name nm
PlayersNamed(nm) == {j \in 1..NumPlayers : PlayerName(j) = nm}

RECURSIVE CounterSum(_, _)
CounterSum(c, keys) ==
    IF keys = {} THEN 0
    ELSE LET k == CHOOSE x \in keys : TRUE IN c[k] + CounterSum(c, keys \ {k})

\* sum(c.values())
CounterTotal(c) == CounterSum(c, DOMAIN c)

\* C36: the bust and Flip 7 counts of run_simulation change only when a match
\* has ended, and then by one for every player whose has_busted flag is set,
\* respectively whose hand is a Flip 7, in the final state of the match: at
\* most once per player per match.  Every match adds one win to the name of
\* its winner, so the wins of all names sum to the number of matches played,
\* and to num_games when the simulation is over.
C36_CountsOfFinalState ==
    /\ [](/\ CounterTotal(results.wins) = game_num
          /\ DOMAIN results.wins \subseteq Names
          /\ game_num <= results.games_played
          /\ pc = "statistics" => CounterTotal(results.wins) = results.games_played)
    /\ [][ pc # "done" => \A key \in DOMAIN results : results'[key] = results[key] ]_vars
    /\ [][ pc = "done"
              => /\ game_num' = game_num + 1
                 /\ \A nm \in Names :
                       /\ Get(results'.bust_counts, nm) - Get(results.bust_counts, nm)
                             = Cardinality({j \in PlayersNamed(nm) : players[j].has_busted})
                       /\ Get(results'.flip7_counts, nm) - Get(results.flip7_counts, nm)
                             = Cardinality({j \in PlayersNamed(nm) : has_flip7(Hand(j - 1))})
                       /\ Get(results'.bust_counts, nm) - Get(results.bust_counts, nm)
                             <= Cardinality(PlayersNamed(nm))
                       /\ Get(results'.flip7_counts, nm) - Get(results.flip7_counts, nm)
                             <= Cardinality(PlayersNamed(nm))
                       /\ Get(results'.wins, nm) - Get(results.wins, nm)
                             = IF nm = PlayerName(winner + 1) THEN 1 ELSE 0
          ]_vars

\* a simulation of three matches is over: the wins sum to 3, and a name has
\* been counted as busted in some matches but not in all
C36_Witness ==
    /\ pc = "statistics"
    /\ results.games_played = MaxGames
    /\ CounterTotal(results.wins) = MaxGames
    /\ \E nm \in Names : Get(results.bust_counts, nm) \in 1..(MaxGames - 1)
    /\ \E nm \in Names : Get(results.flip7_counts, nm) >= 1

====
